---- MODULE Spec2Model ----
(***************************************************************************)
(* Model of the metadata cache (audio_browser/cache/cache_manager.py) and  *)
(* of the archive accessor (audio_browser/zip/zip_manager.py).             *)
(*                                                                         *)
(* The disk is part of the state: the archives, the entry files of the     *)
(* cache directory and the index file.  Each handler is a function from    *)
(* the world before the call to the world after it plus the returned value *)
(* or the raised exception; an action applies one handler to the state.    *)
(***************************************************************************)
EXTENDS Integers, Sequences, FiniteSets, TLC

(***************************************************************************)
(* Strings.  Entry names are kept as strings in the state; Chars gives the *)
(* characters of a name and Code the code point of a character, so that    *)
(* str.lower, str.startswith, Path.suffix, os.path.dirname and             *)
(* os.path.basename are computed on the characters.                        *)
(***************************************************************************)
Code ==
    "." :> 46 @@ "/" :> 47 @@ "0" :> 48 @@ "1" :> 49 @@ "2" :> 50 @@ "3" :> 51 @@
    "4" :> 52 @@ "5" :> 53 @@ "6" :> 54 @@ "7" :> 55 @@ "8" :> 56 @@ "9" :> 57 @@
    "A" :> 65 @@ "B" :> 66 @@ "C" :> 67 @@ "D" :> 68 @@ "E" :> 69 @@ "F" :> 70 @@
    "G" :> 71 @@ "H" :> 72 @@ "I" :> 73 @@ "J" :> 74 @@ "K" :> 75 @@ "L" :> 76 @@
    "M" :> 77 @@ "N" :> 78 @@ "O" :> 79 @@ "P" :> 80 @@ "Q" :> 81 @@ "R" :> 82 @@
    "S" :> 83 @@ "T" :> 84 @@ "U" :> 85 @@ "V" :> 86 @@ "W" :> 87 @@ "X" :> 88 @@
    "Y" :> 89 @@ "Z" :> 90 @@ "_" :> 95 @@ "a" :> 97 @@ "b" :> 98 @@ "c" :> 99 @@
    "d" :> 100 @@ "e" :> 101 @@ "f" :> 102 @@ "g" :> 103 @@ "h" :> 104 @@ "i" :> 105 @@
    "j" :> 106 @@ "k" :> 107 @@ "l" :> 108 @@ "m" :> 109 @@ "n" :> 110 @@ "o" :> 111 @@
    "p" :> 112 @@ "q" :> 113 @@ "r" :> 114 @@ "s" :> 115 @@ "t" :> 116 @@ "u" :> 117 @@
    "v" :> 118 @@ "w" :> 119 @@ "x" :> 120 @@ "y" :> 121 @@ "z" :> 122

Chars ==
    "drums/kick.wav" :> <<"d", "r", "u", "m", "s", "/", "k", "i", "c", "k", ".", "w", "a", "v">> @@
    "drums/Snare.wav" :> <<"d", "r", "u", "m", "s", "/", "S", "n", "a", "r", "e", ".", "w", "a", "v">> @@
    "amb/room.ogg" :> <<"a", "m", "b", "/", "r", "o", "o", "m", ".", "o", "g", "g">> @@
    "B/b.wav" :> <<"B", "/", "b", ".", "w", "a", "v">> @@
    "A/a.mp3" :> <<"A", "/", "a", ".", "m", "p", "3">> @@
    "a/c.ogg" :> <<"a", "/", "c", ".", "o", "g", "g">> @@
    "audio1.wav" :> <<"a", "u", "d", "i", "o", "1", ".", "w", "a", "v">> @@
    "__MACOSX/._audio1.wav" :> <<"_", "_", "M", "A", "C", "O", "S", "X", "/", ".", "_", "a", "u", "d", "i", "o", "1", ".", "w", "a", "v">> @@
    "text.txt" :> <<"t", "e", "x", "t", ".", "t", "x", "t">> @@
    "image.jpg" :> <<"i", "m", "a", "g", "e", ".", "j", "p", "g">> @@
    "._h.wav" :> <<".", "_", "h", ".", "w", "a", "v">> @@
    "LOUD.WAV" :> <<"L", "O", "U", "D", ".", "W", "A", "V">> @@
    "a/x.wav" :> <<"a", "/", "x", ".", "w", "a", "v">> @@
    "b/x.wav" :> <<"b", "/", "x", ".", "w", "a", "v">> @@
    "A/z.wav" :> <<"A", "/", "z", ".", "w", "a", "v">> @@
    "notes.WAV.txt" :> <<"n", "o", "t", "e", "s", ".", "W", "A", "V", ".", "t", "x", "t">> @@
    "a/__MACOSX/._x.wav" :> <<"a", "/", "_", "_", "M", "A", "C", "O", "S", "X", "/", ".", "_", "x", ".", "w", "a", "v">> @@
    ".wav" :> <<".", "w", "a", "v">> @@
    "d1/s.zip" :> <<"d", "1", "/", "s", ".", "z", "i", "p">> @@
    "d2/s.zip" :> <<"d", "2", "/", "s", ".", "z", "i", "p">> @@
    "d1/t.zip" :> <<"d", "1", "/", "t", ".", "z", "i", "p">> @@
    "out" :> <<"o", "u", "t">> @@
    "nodir" :> <<"n", "o", "d", "i", "r">> @@
    "fulldir" :> <<"f", "u", "l", "l", "d", "i", "r">>

\* str.lower followed by the code points: the key Python compares.
LowerCodes(s) ==
    [i \in 1..Len(s) |->
        IF Code[s[i]] >= 65 /\ Code[s[i]] <= 90 THEN Code[s[i]] + 32 ELSE Code[s[i]]]

\* a < b for two sequences of code points (Python's string order).
RECURSIVE SeqLess(_, _)
SeqLess(a, b) ==
    IF b = <<>> THEN FALSE
    ELSE IF a = <<>> THEN TRUE
    ELSE IF Head(a) # Head(b) THEN Head(a) < Head(b)
    ELSE SeqLess(Tail(a), Tail(b))

\* str.startswith
StartsWith(s, prefix) ==
    /\ Len(s) >= Len(prefix)
    /\ SubSeq(s, 1, Len(prefix)) = prefix

\* Index of the last "/" of s, 0 when there is none.
LastSlash(s) ==
    LET idx == {i \in 1..Len(s) : s[i] = "/"}
    IN  IF idx = {} THEN 0 ELSE CHOOSE i \in idx : \A j \in idx : j <= i

\* os.path.basename (posixpath): what follows the last "/".
Basename(s) == SubSeq(s, LastSlash(s) + 1, Len(s))

\* os.path.dirname (posixpath): what precedes the last "/", without its
\* trailing slashes unless it consists of slashes only.
RECURSIVE RStripSlash(_)
RStripSlash(s) ==
    IF s # <<>> /\ s[Len(s)] = "/" THEN RStripSlash(SubSeq(s, 1, Len(s) - 1)) ELSE s

Dirname(s) ==
    LET head == SubSeq(s, 1, LastSlash(s))
    IN  IF head # <<>> /\ \E i \in 1..Len(head) : head[i] # "/"
        THEN RStripSlash(head) ELSE head

\* pathlib.PurePath.suffix: the last "."-part of the final component, empty
\* when the only dot is the first character or the last one.
Suffix(s) ==
    LET name == Basename(s)
        dots == {i \in 1..Len(name) : name[i] = "."}
        i    == IF dots = {} THEN 0 ELSE CHOOSE k \in dots : \A j \in dots : j <= k
    IN  IF i > 1 /\ i < Len(name) THEN SubSeq(name, i, Len(name)) ELSE <<>>

\* ZipManager.AUDIO_EXTENSIONS
AUDIO_EXTENSIONS ==
    { LowerCodes(<<".", "w", "a", "v">>),
      LowerCodes(<<".", "m", "p", "3">>),
      LowerCodes(<<".", "o", "g", "g">>) }

IsAudioName(name) == LowerCodes(Suffix(Chars[name])) \in AUDIO_EXTENSIONS

IsSystemName(name) ==
    \/ StartsWith(Chars[name], <<"_", "_", "M", "A", "C", "O", "S", "X">>)
    \/ StartsWith(Chars[name], <<".", "_">>)

\* sorted(seq, key=...), the keys given as the function key: Python's sort
\* is stable, so an element goes after every element already placed whose
\* key is not greater.
RECURSIVE InsertByKey(_, _, _)
InsertByKey(x, sorted, key) ==
    IF sorted = <<>> THEN <<x>>
    ELSE IF SeqLess(key[x], key[Head(sorted)])
         THEN <<x>> \o sorted
         ELSE <<Head(sorted)>> \o InsertByKey(x, Tail(sorted), key)

RECURSIVE StableSort(_, _)
StableSort(seq, key) ==
    IF seq = <<>> THEN <<>>
    ELSE InsertByKey(seq[Len(seq)], StableSort(SubSeq(seq, 1, Len(seq) - 1), key), key)

SeqRange(seq) == {seq[i] : i \in 1..Len(seq)}

\* The keys of files_by_folder in insertion order: each folder once, at its
\* first occurrence.
RECURSIVE FolderKeys(_)
FolderKeys(names) ==
    IF names = <<>> THEN <<>>
    ELSE LET rest == FolderKeys(SubSeq(names, 1, Len(names) - 1))
             f    == Dirname(Chars[names[Len(names)]])
         IN  IF \E i \in 1..Len(rest) : rest[i] = f THEN rest ELSE Append(rest, f)

RECURSIVE ConcatAll(_)
ConcatAll(seqs) == IF seqs = <<>> THEN <<>> ELSE Head(seqs) \o ConcatAll(Tail(seqs))

\* The file key without .lower(): the code points of the base name as is.
FileKeyCaseSensitive(names) ==
    [n \in SeqRange(names) |->
        [i \in 1..Len(Basename(Chars[n])) |-> Code[Basename(Chars[n])[i]]]]

\* key=str.lower on the folders, key=basename(x).lower() on the files.
FolderKey(folders) == [f \in SeqRange(folders) |-> LowerCodes(f)]
FileKey(names) == [n \in SeqRange(names) |-> LowerCodes(Basename(Chars[n]))]

\* The live scan of list_audio_files on the directory all_files.
ScanAudioFiles(all_files) ==
    LET kept == SelectSeq(all_files, LAMBDA n : ~IsSystemName(n) /\ IsAudioName(n))
        sorted_folders == StableSort(FolderKeys(kept), FolderKey(FolderKeys(kept)))
        InFolder(f) == SelectSeq(kept, LAMBDA n : Dirname(Chars[n]) = f)
    IN  ConcatAll([i \in 1..Len(sorted_folders) |->
                      StableSort(InFolder(sorted_folders[i]),
                                 FileKey(InFolder(sorted_folders[i])))])

(***************************************************************************)
(* Values.  A Python dict is a function whose domain is its set of keys;   *)
(* None and a present value are told apart by their shape.                 *)
(***************************************************************************)
None == [none |-> TRUE]
Some(v) == [val |-> v]
EmptyDict == [k \in {} |-> 0]

\* dict with key k set to v (d[k] = v)
DictSet(d, k, v) == (k :> v) @@ d
\* dict without key k (del d[k])
DictDel(d, k) == [j \in DOMAIN d \ {k} |-> d[j]]

(***************************************************************************)
(* The archives.  An archive file on disk has a content and a modification *)
(* time; Zip gives, for each content, whether it parses as a ZIP file, the *)
(* size of the file and its directory.  mtime counts ticks, TicksPerSecond *)
(* of them to the second: os.stat reports fractions of a second.           *)
(***************************************************************************)
Paths == {"d1/s.zip", "d2/s.zip"}

TicksPerSecond == 2

DateTime == [tag |-> "tuple", items |-> <<1980, 1, 1, 0, 0, 0>>]

Entry(name, file_size, dur) ==
    [filename |-> name, file_size |-> file_size, date_time |-> DateTime, dur |-> dur]

Zip ==
    [k1 |-> [valid |-> TRUE, st_size |-> 10,
             filelist |-> << Entry("drums/kick.wav", 3, Some(500)),
                             Entry("amb/room.ogg", 4, None),
                             Entry("text.txt", 1, None) >>],
     k2 |-> [valid |-> TRUE, st_size |-> 10,
             filelist |-> << Entry("B/b.wav", 2, Some(200)),
                             Entry("A/a.mp3", 5, Some(300)) >>],
     k3 |-> [valid |-> TRUE, st_size |-> 20,
             filelist |-> << Entry("audio1.wav", 6, Some(100)),
                             Entry("__MACOSX/._audio1.wav", 1, None),
                             Entry("image.jpg", 7, None) >>],
     bad |-> [valid |-> FALSE, st_size |-> 5, filelist |-> <<>>],
     txt |-> [valid |-> TRUE, st_size |-> 7,
              filelist |-> << Entry("text.txt", 1, None) >>],
     hid |-> [valid |-> TRUE, st_size |-> 8,
              filelist |-> << Entry("__MACOSX/._audio1.wav", 1, None),
                              Entry("text.txt", 1, None) >>],
     dup |-> [valid |-> TRUE, st_size |-> 9,
              filelist |-> << Entry("a/x.wav", 2, Some(400)),
                              Entry("b/x.wav", 3, None),
                              Entry("audio1.wav", 6, Some(100)) >>]]

ContentIds == DOMAIN Zip

\* ZipFile.namelist()
Namelist(content) == [i \in 1..Len(Zip[content].filelist) |-> Zip[content].filelist[i].filename]

\* ZipFile.getinfo(name): the first entry of that name
GetInfo(content, name) ==
    LET fl == Zip[content].filelist
    IN  fl[CHOOSE i \in 1..Len(fl) : fl[i].filename = name /\ \A j \in 1..(i - 1) : fl[j].filename # name]

NoArchive == [exists |-> FALSE, content |-> "bad", mtime |-> 0]
Archive(content, mtime) == [exists |-> TRUE, content |-> content, mtime |-> mtime]

(***************************************************************************)
(* The cache directory: one entry file per cache file path, and the index  *)
(* file.  A file is absent, holds text that json.load rejects, or holds a  *)
(* JSON document.                                                          *)
(***************************************************************************)
Absent == [kind |-> "absent"]
Malformed == [kind |-> "malformed"]
Json(doc) == [kind |-> "json", doc |-> doc]

CacheDir == <<"c", "a", "c", "h", "e">>

_get_cache_file_path(zip_path) ==
    CacheDir \o <<"/">> \o Basename(Chars[zip_path]) \o <<".", "c", "a", "c", "h", "e">>

CacheFilePaths == {_get_cache_file_path(p) : p \in Paths}

\* json.dump followed by json.load: a tuple comes back as a list.  In the
\* documents of this program the tuples are the timestamps of the per-file
\* records (ZipInfo.date_time).
JsonRecord(r) ==
    [k \in DOMAIN r |->
        IF k = "timestamp" THEN [tag |-> "list", items |-> r[k].items] ELSE r[k]]

JsonPayload(metadata) ==
    [k \in DOMAIN metadata |->
        IF k = "file_metadata"
        THEN [n \in DOMAIN metadata[k] |-> JsonRecord(metadata[k][n])]
        ELSE metadata[k]]

JsonRoundTrip(cache_data) ==
    [k \in DOMAIN cache_data |->
        IF k = "metadata" THEN JsonPayload(cache_data[k]) ELSE cache_data[k]]

(***************************************************************************)
(* The world a handler runs in: the disk (arch, cfile, ifile), the fields  *)
(* of the CacheManager (cache_index) and of the ZipManager (open_zips),    *)
(* and io, which counts the archive accesses of the running call: handles  *)
(* opened, directory scans and duration probes.                            *)
(***************************************************************************)
NoIO == [opens |-> 0, scans |-> 0, probes |-> 0]

\* `with open(file, 'w') as f: json.dump(doc, f)` inside try/except: the
\* file after it.  On a read-only directory open fails and the file stays;
\* on a full disk open creates or cuts the file and the write fails.
Written(w, old, doc) ==
    CASE w.disk = "ok" -> Json(doc)
      [] w.disk = "readonly" -> old
      [] OTHER -> Malformed

\* `if os.path.exists(file): os.remove(file)` inside try/except.
Removed(w, old) == IF w.disk = "readonly" THEN old ELSE Absent

\* CacheManager._load_cache_index
_load_cache_index(ifile) == IF ifile.kind = "json" THEN ifile.doc ELSE EmptyDict

\* CacheManager._save_cache_index
_save_cache_index(w) == [w EXCEPT !.ifile = Written(w, w.ifile, w.cache_index)]

\* CacheManager._load_cache
_load_cache(w, zip_path) ==
    LET cache_file == _get_cache_file_path(zip_path)
    IN  IF w.cfile[cache_file].kind = "json" THEN w.cfile[cache_file].doc ELSE EmptyDict

\* _save_cache with the write lost: the entry file stays as it was.
_save_cache_lost(w, zip_path, cache_data) == w

\* CacheManager._save_cache
_save_cache(w, zip_path, cache_data) ==
    [w EXCEPT !.cfile[_get_cache_file_path(zip_path)] =
                  Written(w, w.cfile[_get_cache_file_path(zip_path)], JsonRoundTrip(cache_data))]

\* CacheManager._calculate_file_stats: int(st_mtime) drops the fraction.
_calculate_file_stats(w, file_path) ==
    [size |-> Zip[w.arch[file_path].content].st_size,
     mtime |-> w.arch[file_path].mtime \div TicksPerSecond]

\* remove_from_cache that deletes the entry file and leaves the registration.
remove_from_cache_keeping_registration(w, zip_path) ==
    IF zip_path \in DOMAIN w.cache_index
    THEN _save_cache_index(
             [w EXCEPT !.cfile[w.cache_index[zip_path]] = Removed(w, w.cfile[w.cache_index[zip_path]])])
    ELSE w

\* remove_from_cache that drops the registration and leaves the entry file.
remove_from_cache_keeping_file(w, zip_path) ==
    IF zip_path \in DOMAIN w.cache_index
    THEN _save_cache_index([w EXCEPT !.cache_index = DictDel(w.cache_index, zip_path)])
    ELSE w

\* CacheManager.remove_from_cache
remove_from_cache(w, zip_path) ==
    IF zip_path \in DOMAIN w.cache_index
    THEN LET cache_file == w.cache_index[zip_path]
         IN  _save_cache_index(
                 [w EXCEPT !.cfile[cache_file] = Removed(w, w.cfile[cache_file]),
                           !.cache_index = DictDel(w.cache_index, zip_path)])
    ELSE w

\* CacheManager.get_cached_metadata: the world after the call, the returned
\* value (None or Some(payload)) and the exception raised, if any.
Return(w, ret) == [w |-> w, ret |-> ret, exc |-> "none"]
Raise(w, exc) == [w |-> w, ret |-> None, exc |-> exc]

get_cached_metadata(w, zip_path) ==
    IF zip_path \notin DOMAIN w.cache_index THEN Return(w, None)
    ELSE LET cache_data == _load_cache(w, zip_path)
             current_stats == _calculate_file_stats(w, zip_path)
         IN
         IF DOMAIN cache_data = {} THEN Return(w, None)
         ELSE IF ~w.arch[zip_path].exists
              THEN Return(remove_from_cache(w, zip_path), None)
         ELSE IF "file_stats" \in DOMAIN cache_data
              THEN LET fs == cache_data["file_stats"]
                   IN  IF "size" \notin DOMAIN fs THEN Raise(w, "KeyError")
                       ELSE IF current_stats.size # fs["size"]
                            THEN Return(remove_from_cache(w, zip_path), None)
                       ELSE IF "mtime" \notin DOMAIN fs THEN Raise(w, "KeyError")
                       ELSE IF current_stats.mtime # fs["mtime"]
                            THEN Return(remove_from_cache(w, zip_path), None)
                       ELSE IF "metadata" \notin DOMAIN cache_data THEN Raise(w, "KeyError")
                       ELSE Return(w, Some(cache_data["metadata"]))
         ELSE IF "checksum" \in DOMAIN cache_data
              THEN IF current_stats.size #
                        (IF "size" \in DOMAIN cache_data THEN cache_data["size"] ELSE 0)
                   THEN Return(remove_from_cache(w, zip_path), None)
                   ELSE LET upgraded == DictSet(cache_data, "file_stats", current_stats)
                            w1 == _save_cache(w, zip_path, upgraded)
                        IN  IF "metadata" \notin DOMAIN upgraded THEN Raise(w1, "KeyError")
                            ELSE Return(w1, Some(upgraded["metadata"]))
         ELSE Return(remove_from_cache(w, zip_path), None)

\* CacheManager.cache_metadata (callers never pass file_bytes)
WrittenAt == "time"

cache_metadata(w, zip_path, metadata) ==
    IF ~w.arch[zip_path].exists THEN Raise(w, "FileNotFoundError")
    ELSE LET file_stats == _calculate_file_stats(w, zip_path)
             cache_data == [file_stats |-> file_stats, metadata |-> metadata,
                            timestamp |-> WrittenAt]
             w1 == _save_cache(w, zip_path, cache_data)
         IN  Return(_save_cache_index(
                        [w1 EXCEPT !.cache_index =
                            DictSet(w1.cache_index, zip_path, _get_cache_file_path(zip_path))]),
                    None)

\* CacheManager.clear_cache
clear_cache(w) ==
    _save_cache_index(
        [w EXCEPT !.cfile = [f \in DOMAIN w.cfile |->
                                IF \E q \in DOMAIN w.cache_index : w.cache_index[q] = f
                                THEN Removed(w, w.cfile[f]) ELSE w.cfile[f]],
                  !.cache_index = EmptyDict])

\* CacheManager.list_cached_zips: the keys of the index.
list_cached_zips(w) == DOMAIN w.cache_index

\* CacheManager.__init__ of a new session over the same cache directory,
\* with a new ZipManager: the index is read from the index file.
CacheManagerInit(w) ==
    [w EXCEPT !.cache_index = _load_cache_index(w.ifile), !.open_zips = EmptyDict]

(***************************************************************************)
(* ZipManager.  A handle of open_zips is the ZipFile object: it holds the  *)
(* directory read when the archive was opened, that is the content the     *)
(* file had then.                                                          *)
(***************************************************************************)
Handle(content) == [content |-> content]

CountIO(w, field) == [w EXCEPT !.io[field] = @ + 1]

\* ZipManager._ensure_zip_open
_ensure_zip_open(w, zip_path) ==
    IF zip_path \in DOMAIN w.open_zips THEN Return(w, None)
    ELSE IF ~w.arch[zip_path].exists THEN Raise(w, "FileNotFoundError")
    ELSE IF ~Zip[w.arch[zip_path].content].valid THEN Raise(w, "ValueError")
    ELSE Return(CountIO([w EXCEPT !.open_zips =
                            DictSet(w.open_zips, zip_path, Handle(w.arch[zip_path].content))],
                        "opens"),
                None)

\* ZipManager.list_audio_files.  The handler is written in stages, each
\* stage taking the outcome of the call made before it: ListScan is the
\* live scan of the open archive, ListFrom the choice between the cached
\* list and the scan.
ListScan(o, zip_path) ==
    IF o.exc # "none" THEN o
    ELSE Return(CountIO(o.w, "scans"),
                Some(ScanAudioFiles(Namelist(o.w.open_zips[zip_path].content))))

ListFrom(c, zip_path) ==
    IF c.exc # "none" THEN c
    ELSE IF c.ret # None /\ DOMAIN c.ret.val # {} /\ "audio_files" \in DOMAIN c.ret.val
         THEN Return(c.w, Some(c.ret.val["audio_files"]))
    ELSE ListScan(_ensure_zip_open(c.w, zip_path), zip_path)

list_audio_files(w, zip_path) == ListFrom(get_cached_metadata(w, zip_path), zip_path)

\* ZipManager.get_audio_duration: mutagen's answer for the entry is the dur
\* of the directory entry (None: no duration could be read).  The entries
\* of the model are not larger than max_header_size.
InNamelist(content, file_name) ==
    \E i \in 1..Len(Namelist(content)) : Namelist(content)[i] = file_name

ProbeDuration(o, zip_path, file_name) ==
    IF o.exc # "none" THEN o
    ELSE IF ~InNamelist(o.w.open_zips[zip_path].content, file_name)
         THEN Raise(o.w, "KeyError")
    ELSE Return(CountIO(o.w, "probes"),
                GetInfo(o.w.open_zips[zip_path].content, file_name).dur)

\* The cached per-file record of file_name ({} when there is none).
CachedRecord(c, file_name) ==
    IF c.exc = "none" /\ c.ret # None /\ DOMAIN c.ret.val # {}
       /\ "file_metadata" \in DOMAIN c.ret.val
       /\ file_name \in DOMAIN c.ret.val["file_metadata"]
    THEN c.ret.val["file_metadata"][file_name] ELSE EmptyDict

DurationFrom(c, zip_path, file_name) ==
    IF c.exc # "none" THEN c
    ELSE IF "duration_ms" \in DOMAIN CachedRecord(c, file_name)
         THEN Return(c.w, Some(CachedRecord(c, file_name)["duration_ms"]))
    ELSE ProbeDuration(_ensure_zip_open(c.w, zip_path), zip_path, file_name)

get_audio_duration(w, zip_path, file_name) ==
    DurationFrom(get_cached_metadata(w, zip_path), zip_path, file_name)

\* What mutagen.File makes of the first max_header_size bytes of an entry
\* that is longer: a length, nothing (None, or an info without length), or
\* an exception.
MutagenOutcomes == {"length", "nothing", "raises"}

DefaultMaxHeaderSize == 1048576

\* ZipManager.get_audio_duration with max_header_size given, header being
\* what mutagen makes of a truncated read of this entry; get_audio_duration
\* above is the case of the default size, where the entries of the model
\* are read whole.  From the last stage to the first: the second read, of
\* the whole entry, and its probe; the probe of the header that was read;
\* the first read after the call o of _ensure_zip_open; the lookup c.  An
\* entry without stream information has none in its header either.
HeaderRetry(w, zip_info) == Return(CountIO(w, "probes"), zip_info.dur)

HeaderProbed(w, zip_info, header) ==
    IF header = "raises" THEN Return(w, None)
    ELSE IF header = "length" /\ zip_info.dur # None THEN Return(w, zip_info.dur)
    ELSE HeaderRetry(w, zip_info)

HeaderRead(w, zip_info, max_header_size, header) ==
    IF zip_info.file_size <= max_header_size
    THEN Return(CountIO(w, "probes"), zip_info.dur)
    ELSE HeaderProbed(CountIO(w, "probes"), zip_info, header)

HeaderProbe(o, zip_path, file_name, max_header_size, header) ==
    IF o.exc # "none" THEN o
    ELSE IF ~InNamelist(o.w.open_zips[zip_path].content, file_name)
         THEN Raise(o.w, "KeyError")
    ELSE HeaderRead(o.w, GetInfo(o.w.open_zips[zip_path].content, file_name),
                    max_header_size, header)

HeaderDurationFrom(c, zip_path, file_name, max_header_size, header) ==
    IF c.exc # "none" THEN c
    ELSE IF "duration_ms" \in DOMAIN CachedRecord(c, file_name)
         THEN Return(c.w, Some(CachedRecord(c, file_name)["duration_ms"]))
    ELSE HeaderProbe(_ensure_zip_open(c.w, zip_path), zip_path, file_name,
                     max_header_size, header)

get_audio_duration_of_header(w, zip_path, file_name, max_header_size, header) ==
    HeaderDurationFrom(get_cached_metadata(w, zip_path), zip_path, file_name,
                       max_header_size, header)

\* ZipManager._validate_zip: the error message, or "" with the handle.
_validate_zip(w, zip_path) ==
    IF ~w.arch[zip_path].exists THEN [w |-> w, error |-> "No such file", zip_file |-> None]
    ELSE IF ~Zip[w.arch[zip_path].content].valid
         THEN [w |-> w, error |-> "ZIP file is invalid", zip_file |-> None]
    ELSE IF SelectSeq(Zip[w.arch[zip_path].content].filelist,
                      LAMBDA zinfo : IsAudioName(zinfo.filename)) = <<>>
         THEN [w |-> CountIO([w EXCEPT !.unreferenced =
                                   @ \cup {Handle(w.arch[zip_path].content)}], "opens"),
               error |-> "No audio files found", zip_file |-> None]
    ELSE [w |-> CountIO(w, "opens"), error |-> "",
          zip_file |-> Some(Handle(w.arch[zip_path].content))]

\* The metadata loop of load_zip over audio_files[i..]: size and timestamp
\* from the directory, then the duration d; an exception skips to the next
\* file.
BasicRecord(zip_info) == [size |-> zip_info.file_size, timestamp |-> zip_info.date_time]

RECURSIVE ExtractMetadata(_, _, _, _, _)
ExtractDuration(d, zip_path, audio_files, i, file_metadata, basic) ==
    ExtractMetadata(d.w, zip_path, audio_files, i + 1,
        DictSet(file_metadata, audio_files[i],
                IF d.exc = "none" /\ d.ret # None
                THEN DictSet(basic, "duration_ms", d.ret.val)
                ELSE basic))

ExtractMetadata(w, zip_path, audio_files, i, file_metadata) ==
    IF i > Len(audio_files) THEN [w |-> w, file_metadata |-> file_metadata]
    ELSE IF ~InNamelist(w.open_zips[zip_path].content, audio_files[i])
         THEN ExtractMetadata(w, zip_path, audio_files, i + 1, file_metadata)
    ELSE ExtractDuration(get_audio_duration(w, zip_path, audio_files[i]),
                         zip_path, audio_files, i, file_metadata,
                         BasicRecord(GetInfo(w.open_zips[zip_path].content, audio_files[i])))

\* ZipManager.load_zip: the returned value is timing_info['used_cache'].
\* In stages, from the last to the first: the end of the call after the
\* cache write s, the cache write after the metadata loop m, the loop after
\* the listing l, the listing once the validated handle is registered, the
\* validation v, and the cache lookup c.
\* load_zip that closes the archives when it has stored the entry.
LoadEndClosed(s) ==
    IF s.exc # "none" THEN s ELSE Return([s.w EXCEPT !.open_zips = EmptyDict], Some(FALSE))

LoadEnd(s) == IF s.exc # "none" THEN s ELSE Return(s.w, Some(FALSE))

LoadStore(m, zip_path, audio_files) ==
    LoadEnd(cache_metadata(m.w, zip_path,
                [audio_files |-> audio_files,
                 total_files |-> Len(Zip[m.w.open_zips[zip_path].content].filelist),
                 file_metadata |-> m.file_metadata]))

LoadMetadata(l, zip_path) ==
    IF l.exc # "none" THEN l
    ELSE LoadStore(ExtractMetadata(l.w, zip_path, l.ret.val, 1, EmptyDict),
                   zip_path, l.ret.val)

LoadValidated(v, zip_path) ==
    IF v.error # "" THEN Raise(v.w, "ValueError")
    ELSE LoadMetadata(
             list_audio_files(
                 [v.w EXCEPT !.open_zips = DictSet(v.w.open_zips, zip_path, v.zip_file.val)],
                 zip_path),
             zip_path)

\* load_zip that does not return on a cache hit and goes on to the archive.
LoadFromPastCacheHit(c, zip_path) ==
    IF c.exc # "none" THEN c
    ELSE IF zip_path \in DOMAIN c.w.open_zips THEN Return(c.w, Some(TRUE))
    ELSE LoadValidated(_validate_zip(c.w, zip_path), zip_path)

LoadFrom(c, zip_path) ==
    IF c.exc # "none" THEN c
    ELSE IF c.ret # None THEN Return(c.w, Some(TRUE))
    ELSE IF zip_path \in DOMAIN c.w.open_zips THEN Return(c.w, Some(TRUE))
    ELSE LoadValidated(_validate_zip(c.w, zip_path), zip_path)

load_zip(w, zip_path) ==
    IF ~w.arch[zip_path].exists THEN Raise(w, "FileNotFoundError")
    ELSE LoadFrom(get_cached_metadata(w, zip_path), zip_path)

(***************************************************************************)
(* load_zip in steps.  _update_progress runs the progress callback and     *)
(* QApplication.processEvents(), so that handlers of the application, and  *)
(* other programs, run between two batches of the metadata loop.  A call   *)
(* that gets to the loop is a frame: its path, its listing, the index i of *)
(* the next batch, and the progress values and batch lengths so far; its   *)
(* file_metadata is kept beside it.                                        *)
(***************************************************************************)
BATCH_SIZE == 2

Ended(r) == [ended |-> TRUE, r |-> r]

\* load_zip up to the metadata loop: the outcome when the call ends before
\* the loop, the listing l when it gets there.
BeginListed(l) == [ended |-> l.exc # "none", r |-> l]

BeginValidated(v, zip_path) ==
    IF v.error # "" THEN Ended(Raise(v.w, "ValueError"))
    ELSE BeginListed(
             list_audio_files(
                 [v.w EXCEPT !.open_zips = DictSet(v.w.open_zips, zip_path, v.zip_file.val)],
                 zip_path))

BeginFrom(c, zip_path) ==
    IF c.exc # "none" THEN Ended(c)
    ELSE IF c.ret # None THEN Ended(Return(c.w, Some(TRUE)))
    ELSE IF zip_path \in DOMAIN c.w.open_zips THEN Ended(Return(c.w, Some(TRUE)))
    ELSE BeginValidated(_validate_zip(c.w, zip_path), zip_path)

load_zip_begin(w, zip_path) ==
    IF ~w.arch[zip_path].exists THEN Ended(Raise(w, "FileNotFoundError"))
    ELSE BeginFrom(get_cached_metadata(w, zip_path), zip_path)

ScanFrame(zip_path, audio_files) ==
    [zip_path |-> zip_path, audio_files |-> audio_files, i |-> 0,
     progress |-> <<>>, batches |-> <<>>]

\* audio_files[i:i + BATCH_SIZE]
Batch(audio_files, i) ==
    SubSeq(audio_files, i + 1,
           IF i + BATCH_SIZE < Len(audio_files) THEN i + BATCH_SIZE ELSE Len(audio_files))

\* The progress value computed from the index of the batch alone.
PercentOfStart(i, n, total_files) == (i * 100) \div total_files

\* int((i + len(batch)) / total_files * 100)
Percent(i, n, total_files) == ((i + n) * 100) \div total_files

\* The frame after one turn of the outer loop: i is the next value of the
\* range, and the progress value of the batch has been reported.
NextTurn(f) ==
    [f EXCEPT !.i = @ + BATCH_SIZE,
              !.progress = Append(@, Percent(f.i, Len(Batch(f.audio_files, f.i)),
                                             Len(f.audio_files))),
              !.batches = Append(@, Len(Batch(f.audio_files, f.i)))]

\* The inner loop of one turn, over the batch.
load_zip_batch(w, f, file_metadata) ==
    ExtractMetadata(w, f.zip_path, Batch(f.audio_files, f.i), 1, file_metadata)

\* The loop is over: the cache write and the end of the call.
load_zip_end(w, f, file_metadata) ==
    IF f.zip_path \notin DOMAIN w.open_zips THEN Raise(w, "KeyError")
    ELSE LoadStore([w |-> w, file_metadata |-> file_metadata], f.zip_path, f.audio_files)

(***************************************************************************)
(* Reading and extracting entries.  An output directory is one of three    *)
(* kinds: "out" exists and takes writes, "nodir" does not exist (open      *)
(* fails), "fulldir" is on a full device (open creates or cuts the file    *)
(* and the copy fails).  A file of an output directory holds the whole     *)
(* data of an entry or a part of it.                                       *)
(***************************************************************************)
TempDirName == "tmp"

NoOutFiles == EmptyDict

OutDirs == {"out", "nodir", "fulldir"}

\* The bytes of entry file_name of an archive of this content.
Data(content, file_name) == [content |-> content, name |-> file_name]

WholeFile(data) == [data |-> data, whole |-> TRUE]
CutFile(data) == [data |-> data, whole |-> FALSE]

\* ZipManager.read_file, after the call o of _ensure_zip_open.
ReadFrom(o, zip_path, file_name) ==
    IF o.exc # "none" THEN o
    ELSE IF ~InNamelist(o.w.open_zips[zip_path].content, file_name)
         THEN Raise(o.w, "KeyError")
    ELSE Return(CountIO(o.w, "probes"),
                Some(Data(o.w.open_zips[zip_path].content, file_name)))

read_file(w, zip_path, file_name) ==
    ReadFrom(_ensure_zip_open(w, zip_path), zip_path, file_name)

\* ZipManager.stream_file is a generator function: the call returns a
\* generator and runs nothing of the body; StreamBody is the body, run by
\* the first next() on the generator, up to the first chunk.
stream_file(w, zip_path, file_name) ==
    Return(w, Some([generator |-> "stream_file", zip_path |-> zip_path,
                    file_name |-> file_name]))

StreamBody(o, zip_path, file_name) ==
    IF o.exc # "none" THEN o
    ELSE IF ~InNamelist(o.w.open_zips[zip_path].content, file_name)
         THEN Raise(o.w, "KeyError")
    ELSE Return(CountIO(o.w, "probes"),
                Some(Data(o.w.open_zips[zip_path].content, file_name)))

StreamNext(w, zip_path, file_name) ==
    StreamBody(_ensure_zip_open(w, zip_path), zip_path, file_name)

\* The bytes that reading the entry gives: file_size of them, each one
\* told apart from the others by its place in the entry.
EntryBytes(data) ==
    [i \in 1..GetInfo(data.content, data.name).file_size |-> <<data.name, i>>]

\* file.read(n) at offset pos: at most n bytes, fewer only at the end of
\* the entry; everything that is left when n is negative.
FileRead(bytes, pos, n) ==
    IF n < 0 THEN SubSeq(bytes, pos + 1, Len(bytes))
    ELSE SubSeq(bytes, pos + 1, IF pos + n < Len(bytes) THEN pos + n ELSE Len(bytes))

\* The while loop of stream_file from offset pos, chunks being the chunks
\* yielded so far.
RECURSIVE StreamLoop(_, _, _, _)
\* A loop that takes a short chunk for the end of the entry and drops it.
StreamYieldFullOnly(chunk, bytes, pos, chunk_size, chunks) ==
    IF Len(chunk) < chunk_size THEN chunks
    ELSE StreamLoop(bytes, pos + Len(chunk), chunk_size, Append(chunks, chunk))

StreamYield(chunk, bytes, pos, chunk_size, chunks) ==
    IF chunk = <<>> THEN chunks
    ELSE StreamLoop(bytes, pos + Len(chunk), chunk_size, Append(chunks, chunk))

StreamLoop(bytes, pos, chunk_size, chunks) ==
    StreamYield(FileRead(bytes, pos, chunk_size), bytes, pos, chunk_size, chunks)

\* list(stream_file(zip_path, file_name, chunk_size)): the generator run to
\* its end, after the call o of _ensure_zip_open.
StreamListFrom(o, zip_path, file_name, chunk_size) ==
    IF o.exc # "none" THEN o
    ELSE IF ~InNamelist(o.w.open_zips[zip_path].content, file_name)
         THEN Raise(o.w, "KeyError")
    ELSE Return(CountIO(o.w, "probes"),
                Some(StreamLoop(EntryBytes(Data(o.w.open_zips[zip_path].content, file_name)),
                                0, chunk_size, <<>>)))

StreamList(w, zip_path, file_name, chunk_size) ==
    StreamListFrom(_ensure_zip_open(w, zip_path), zip_path, file_name, chunk_size)

\* os.path.join(output_dir, os.path.basename(file_name))
OutputPath(output_dir, file_name) ==
    Chars[output_dir] \o <<"/">> \o Basename(Chars[file_name])

\* The try block of extract_file: the copy to output_path, the check that
\* the file exists, and the record of the path in extracted_files.  Every
\* exception leaves as OSError.
ExtractCopy(w, zip_path, file_name, output_dir, output_path) ==
    IF output_dir = "nodir" THEN Raise(w, "OSError")
    ELSE IF output_dir = "fulldir"
    THEN Raise([w EXCEPT !.outfiles = DictSet(@, output_path,
                            CutFile(Data(w.open_zips[zip_path].content, file_name)))],
               "OSError")
    ELSE Return([w EXCEPT !.outfiles = DictSet(@, output_path,
                            WholeFile(Data(w.open_zips[zip_path].content, file_name))),
                          !.extracted_files = Append(@, output_path)],
                Some(output_path))

\* ZipManager.extract_file, after the call o of _ensure_zip_open.
ExtractFrom(o, zip_path, file_name, output_dir) ==
    IF o.exc # "none" THEN o
    ELSE IF ~InNamelist(o.w.open_zips[zip_path].content, file_name)
         THEN Raise(o.w, "KeyError")
    ELSE ExtractCopy(CountIO(o.w, "probes"), zip_path, file_name, output_dir,
                     OutputPath(output_dir, file_name))

extract_file(w, zip_path, file_name, output_dir) ==
    ExtractFrom(_ensure_zip_open(w, zip_path), zip_path, file_name, output_dir)

\* ZipManager.extract_files over file_names[i..], extracted_paths being the
\* paths of the names before i; e is the outcome of the extract_file call
\* on file_names[i].
RECURSIVE extract_files_from(_, _, _, _, _, _)
\* extract_files that goes on to the next name when one fails.
ExtractNextSkipping(e, zip_path, file_names, output_dir, i, extracted_paths) ==
    IF e.exc # "none"
    THEN extract_files_from(e.w, zip_path, file_names, output_dir, i + 1, extracted_paths)
    ELSE extract_files_from(e.w, zip_path, file_names, output_dir, i + 1,
                            Append(extracted_paths, e.ret.val))

ExtractNext(e, zip_path, file_names, output_dir, i, extracted_paths) ==
    IF e.exc # "none" THEN e
    ELSE extract_files_from(e.w, zip_path, file_names, output_dir, i + 1,
                            Append(extracted_paths, e.ret.val))

extract_files_from(w, zip_path, file_names, output_dir, i, extracted_paths) ==
    IF i > Len(file_names) THEN Return(w, Some(extracted_paths))
    ELSE ExtractNext(extract_file(w, zip_path, file_names[i], output_dir),
                     zip_path, file_names, output_dir, i, extracted_paths)

extract_files(w, zip_path, file_names, output_dir) ==
    extract_files_from(w, zip_path, file_names, output_dir, 1, <<>>)

\* ZipManager.cleanup
cleanup(w) ==
    Return([w EXCEPT !.outfiles = [f \in DOMAIN @ \ {w.extracted_files[i] :
                                                        i \in 1..Len(w.extracted_files)} |-> @[f]],
                     !.extracted_files = <<>>,
                     !.temp_dir = None,
                     !.open_zips = EmptyDict],
           None)

\* close_zip without the test that the path is open: del raises KeyError.
close_zip_unguarded(w, zip_path) ==
    IF zip_path \in DOMAIN w.open_zips
    THEN Return([w EXCEPT !.open_zips = DictDel(@, zip_path)], None)
    ELSE Raise(w, "KeyError")

\* ZipManager.close_zip
close_zip(w, zip_path) ==
    IF zip_path \in DOMAIN w.open_zips
    THEN Return([w EXCEPT !.open_zips = DictDel(@, zip_path)], None)
    ELSE Return(w, None)

\* ZipManager.get_open_zips: the keys of open_zips.
get_open_zips(w) == DOMAIN w.open_zips


(***************************************************************************)
(* Durations and tags on demand.  Both methods look in the cache, probe    *)
(* the entry on a miss, merge what they found into the payload the cache   *)
(* returned (or into a new payload when it returned None) and store it.    *)
(***************************************************************************)
\* The payload built when the cache returned None: the listing, the number
\* of entries of the open archive, and no per-file record.
NewPayload(w, zip_path, audio_files) ==
    [audio_files |-> audio_files,
     total_files |-> Len(Zip[w.open_zips[zip_path].content].filelist),
     file_metadata |-> EmptyDict]

\* The payload with key set to value in the record of file_name, the
\* record being made of size and timestamp when the payload has none.
WithRecord(payload, file_name, zip_info, key, value) ==
    LET file_metadata == IF "file_metadata" \in DOMAIN payload
                         THEN payload["file_metadata"] ELSE EmptyDict
        record == IF file_name \in DOMAIN file_metadata
                  THEN file_metadata[file_name] ELSE BasicRecord(zip_info)
    IN  DictSet(payload, "file_metadata",
                DictSet(file_metadata, file_name, DictSet(record, key, value)))

\* get_file_duration that stores the payload without the duration.
StoreDurationDropped(w, zip_path, file_name, duration, payload) ==
    IF zip_path \notin DOMAIN w.open_zips THEN Raise(w, "KeyError")
    ELSE LET s == cache_metadata(w, zip_path, payload)
         IN  IF s.exc # "none" THEN s ELSE Return(s.w, Some(duration))

\* ZipManager.get_file_duration, from the last stage to the first: the end
\* of the call after the cache write s, the write of the merged payload,
\* the payload after the listing l made when the cache returned None, the
\* update after the probe d, and the lookup c.
FileDurationEnd(s, duration) ==
    IF s.exc # "none" THEN s ELSE Return(s.w, Some(duration))

StoreDuration(w, zip_path, file_name, duration, payload) ==
    IF zip_path \notin DOMAIN w.open_zips THEN Raise(w, "KeyError")
    ELSE FileDurationEnd(
             cache_metadata(w, zip_path,
                 WithRecord(payload, file_name,
                            GetInfo(w.open_zips[zip_path].content, file_name),
                            "duration_ms", duration)),
             duration)

FileDurationListed(l, zip_path, file_name, duration) ==
    IF l.exc # "none" THEN l
    ELSE IF zip_path \notin DOMAIN l.w.open_zips THEN Raise(l.w, "KeyError")
    ELSE StoreDuration(l.w, zip_path, file_name, duration,
                       NewPayload(l.w, zip_path, l.ret.val))

\* get_file_duration that makes up a duration of 0 when the probe gives none.
FileDurationProbedZero(d, c, zip_path, file_name) ==
    IF d.exc # "none" THEN d
    ELSE IF d.ret = None THEN Return(d.w, Some(0))
    ELSE IF c.ret = None
         THEN FileDurationListed(list_audio_files(d.w, zip_path), zip_path, file_name,
                                 d.ret.val)
    ELSE StoreDuration(d.w, zip_path, file_name, d.ret.val, c.ret.val)

FileDurationProbed(d, c, zip_path, file_name) ==
    IF d.exc # "none" THEN d
    ELSE IF d.ret = None THEN Return(d.w, None)
    ELSE IF c.ret = None
         THEN FileDurationListed(list_audio_files(d.w, zip_path), zip_path, file_name,
                                 d.ret.val)
    ELSE StoreDuration(d.w, zip_path, file_name, d.ret.val, c.ret.val)

FileDurationFrom(c, zip_path, file_name) ==
    IF c.exc # "none" THEN c
    ELSE IF "duration_ms" \in DOMAIN CachedRecord(c, file_name)
         THEN Return(c.w, Some(CachedRecord(c, file_name)["duration_ms"]))
    ELSE FileDurationProbed(get_audio_duration(c.w, zip_path, file_name), c,
                            zip_path, file_name)

get_file_duration(w, zip_path, file_name) ==
    FileDurationFrom(get_cached_metadata(w, zip_path), zip_path, file_name)

\* TinyTag.get on the bytes of an entry: the metadata dict built from the
\* tag, or None when there is no tag or the parser raises.  In the archives
\* of the model an entry with a duration has a tag with the file size and
\* the duration, an entry without duration but of more than one byte a tag
\* with the file size alone, and a one-byte entry no tag.
FullTag(zip_info) ==
    IF zip_info.dur # None
    THEN Some([filesize |-> zip_info.file_size, duration_ms |-> zip_info.dur.val])
    ELSE IF zip_info.file_size > 1 THEN Some([filesize |-> zip_info.file_size])
    ELSE None

\* ZipManager.get_full_audio_metadata, in the same stages; from the probe
\* on, every exception is caught and the call returns None.
FullMetadataEnd(s, metadata) ==
    IF s.exc # "none" THEN Return(s.w, None) ELSE Return(s.w, Some(metadata))

StoreFullMetadata(w, zip_path, file_name, metadata, payload) ==
    FullMetadataEnd(
        cache_metadata(w, zip_path,
            WithRecord(payload, file_name,
                       GetInfo(w.open_zips[zip_path].content, file_name),
                       "full_metadata", metadata)),
        metadata)

FullMetadataListed(l, zip_path, file_name, metadata) ==
    IF l.exc # "none" THEN Return(l.w, None)
    ELSE StoreFullMetadata(l.w, zip_path, file_name, metadata,
                           NewPayload(l.w, zip_path, l.ret.val))

FullMetadataTagged(w, c, zip_path, file_name, tag) ==
    IF tag = None THEN Return(w, None)
    ELSE IF c.ret = None
         THEN FullMetadataListed(list_audio_files(w, zip_path), zip_path, file_name, tag.val)
    ELSE StoreFullMetadata(w, zip_path, file_name, tag.val, c.ret.val)

FullMetadataProbed(o, c, zip_path, file_name) ==
    IF o.exc # "none" THEN o
    ELSE IF ~InNamelist(o.w.open_zips[zip_path].content, file_name)
         THEN Raise(o.w, "KeyError")
    ELSE FullMetadataTagged(CountIO(o.w, "probes"), c, zip_path, file_name,
                            FullTag(GetInfo(o.w.open_zips[zip_path].content, file_name)))

FullMetadataFrom(c, zip_path, file_name) ==
    IF c.exc # "none" THEN c
    ELSE IF "full_metadata" \in DOMAIN CachedRecord(c, file_name)
         THEN Return(c.w, Some(CachedRecord(c, file_name)["full_metadata"]))
    ELSE FullMetadataProbed(_ensure_zip_open(c.w, zip_path), c, zip_path, file_name)

get_full_audio_metadata(w, zip_path, file_name) ==
    FullMetadataFrom(get_cached_metadata(w, zip_path), zip_path, file_name)

(***************************************************************************)
(* State.                                                                  *)
(*   arch         the archive files on disk                                *)
(*   cfile        the entry files of the cache directory                   *)
(*   ifile        the index file cache_index.json                          *)
(*   cache_index  CacheManager.cache_index                                 *)
(*   open_zips    ZipManager.open_zips                                     *)
(*   loaded       history: the size and mtime (in seconds) of the archive  *)
(*                at the last successful load_zip of each path by this     *)
(*                ZipManager                                               *)
(*   scanned      history: the archive and the listing of the last live    *)
(*                scan of load_zip that was stored in the cache            *)
(*   last         history: the last call, its argument, its outcome, its   *)
(*                archive accesses and the world it started in             *)
(*   envSteps     number of changes made to the disk from outside          *)
(*   disk         whether the cache directory takes writes: "ok",          *)
(*                "readonly" (open and remove fail) or "full" (a file      *)
(*                opened for writing is cut and the write fails)           *)
(*   extracted_files  ZipManager.extracted_files                           *)
(*   temp_dir     ZipManager.temp_dir: the temporary directory, or None    *)
(*   outfiles     the files of the output directories: the program starts  *)
(*                with none, and extract_file alone writes there           *)
(***************************************************************************)
VARIABLES arch, cfile, ifile, cache_index, open_zips, loaded, scanned, last, envSteps,
          disk, extracted_files, temp_dir, outfiles, unreferenced, frame,
          scan_metadata

vars == <<arch, cfile, ifile, cache_index, open_zips, loaded, scanned, last, envSteps, disk,
          extracted_files, temp_dir, outfiles, unreferenced, frame, scan_metadata>>

\* The fields of the ZipManager and the files that the calls of the
\* CacheManager and the changes of the archives leave alone; with them the
\* handles that are open and that the program has let go of (unreferenced),
\* and the call of load_zip that is under way (frame) with its file_metadata
\* (scan_metadata).
extraction == <<extracted_files, temp_dir, outfiles, unreferenced, frame, scan_metadata>>

MaxEnv == 1
MaxTick == 2

World ==
    [arch |-> arch, cfile |-> cfile, ifile |-> ifile, cache_index |-> cache_index,
     open_zips |-> open_zips, loaded |-> loaded, scanned |-> scanned, io |-> NoIO,
     disk |-> disk, extracted_files |-> extracted_files, temp_dir |-> temp_dir,
     outfiles |-> outfiles, unreferenced |-> unreferenced]

\* The state after a handler that ended in world w.
Becomes(w) ==
    /\ arch' = w.arch
    /\ cfile' = w.cfile
    /\ ifile' = w.ifile
    /\ cache_index' = w.cache_index
    /\ open_zips' = w.open_zips
    /\ disk' = w.disk
    /\ extracted_files' = w.extracted_files
    /\ temp_dir' = w.temp_dir
    /\ outfiles' = w.outfiles
    /\ unreferenced' = w.unreferenced

Call(op, path, arg, r) ==
    [op |-> op, path |-> path, arg |-> arg, exc |-> r.exc, ret |-> r.ret, io |-> r.w.io,
     repeat |-> last.op = op /\ last.path = path /\ last.exc = "none",
     before |-> World]

NoCall ==
    [op |-> "init", path |-> "", arg |-> None, exc |-> "none", ret |-> None, io |-> NoIO,
     repeat |-> FALSE, before |-> None]

\* The payload load_zip builds for an archive of this content (with the
\* timestamps as the tuples ZipInfo.date_time gives).
RECURSIVE DirectoryRecords(_, _)
DirectoryRecords(content, names) ==
    IF names = <<>> THEN EmptyDict
    ELSE LET zi == GetInfo(content, Head(names))
             basic == [size |-> zi.file_size, timestamp |-> zi.date_time]
         IN  DictSet(DirectoryRecords(content, Tail(names)), Head(names),
                     IF zi.dur # None THEN DictSet(basic, "duration_ms", zi.dur.val)
                     ELSE basic)

ScanPayload(content) ==
    [audio_files |-> ScanAudioFiles(Namelist(content)),
     total_files |-> Len(Zip[content].filelist),
     file_metadata |-> DirectoryRecords(content, ScanAudioFiles(Namelist(content)))]

\* An entry as earlier versions of the program wrote it: a checksum and the
\* size of the archive instead of file_stats.
LegacyEntry(size, payload) ==
    Json([checksum |-> "sha256", size |-> size, metadata |-> JsonPayload(payload),
          timestamp |-> WrittenAt])

InitArch ==
    [p \in Paths |->
        IF p = "d1/s.zip" THEN Archive("k1", 0) ELSE Archive("k2", 1)]

\* The cache directory a session starts with: empty, or holding one legacy
\* entry whose size agrees or not with the archive.
InitCaches ==
    {[cfile |-> [f \in CacheFilePaths |-> Absent], index |-> EmptyDict]}
    \cup
    {[cfile |-> [f \in CacheFilePaths |->
                    IF f = _get_cache_file_path(p)
                    THEN LegacyEntry(size, ScanPayload(InitArch[p].content)) ELSE Absent],
      index |-> [q \in {p} |-> _get_cache_file_path(p)]]
        : p \in {"d1/s.zip"}, size \in {10, 20}}

Init ==
    /\ arch = InitArch
    /\ \E c \in InitCaches :
          /\ cfile = c.cfile
          /\ ifile = (IF c.index = EmptyDict THEN Absent ELSE Json(c.index))
          /\ cache_index = c.index
    /\ open_zips = EmptyDict
    /\ loaded = [p \in Paths |-> None]
    /\ scanned = [p \in Paths |-> None]
    /\ last = NoCall
    /\ envSteps = 0
    /\ disk = "ok"
    /\ extracted_files = <<>>
    /\ temp_dir = Some(TempDirName)
    /\ outfiles = NoOutFiles
    /\ unreferenced = {}
    /\ frame = None
    /\ scan_metadata = EmptyDict

(***************************************************************************)
(* The calls of the CacheManager.                                          *)
(***************************************************************************)
\* A call that leaves the histories loaded and scanned alone.
Does(op, path, arg, r) ==
    /\ Becomes(r.w)
    /\ last' = Call(op, path, arg, r)
    /\ UNCHANGED <<loaded, scanned, envSteps, frame, scan_metadata>>

GetCachedMetadata(p) == Does("get_cached_metadata", p, None, get_cached_metadata(World, p))

\* The payloads the accessor stores: the one of a scan of the archive, and
\* the same payload as it comes back from the cache.
Payloads(p) ==
    {ScanPayload(arch[p].content), JsonPayload(ScanPayload(arch[p].content))}

CacheMetadata(p, metadata) ==
    Does("cache_metadata", p, Some(metadata), cache_metadata(World, p, metadata))

RemoveFromCache(p) ==
    Does("remove_from_cache", p, None, Return(remove_from_cache(World, p), None))

ClearCache == Does("clear_cache", "", None, Return(clear_cache(World), None))

\* A new session: CacheManager.__init__ reads the index file, and the new
\* ZipManager has no open archive.
Restart ==
    /\ last.op # "restart"
    /\ cache_index' = _load_cache_index(ifile)
    /\ open_zips' = EmptyDict
    /\ loaded' = [p \in Paths |-> None]
    /\ last' = [NoCall EXCEPT !.op = "restart", !.before = World]
    /\ extracted_files' = <<>>
    /\ temp_dir' = Some(TempDirName)
    /\ unreferenced' = {}
    /\ UNCHANGED <<arch, cfile, ifile, scanned, envSteps, disk, outfiles, frame, scan_metadata>>

(***************************************************************************)
(* The calls of the ZipManager.                                            *)
(***************************************************************************)
\* load_zip with its histories: a successful call is recorded in loaded, and
\* one that scanned and stored (used_cache = False) in scanned, with the
\* list it stored.
Loads(p, r) ==
    /\ Becomes(r.w)
    /\ last' = Call("load_zip", p, None, r)
    /\ loaded' = IF r.exc = "none"
                 THEN [loaded EXCEPT ![p] = Some(_calculate_file_stats(World, p))]
                 ELSE loaded
    /\ scanned' = IF r.exc = "none" /\ r.ret = Some(FALSE)
                  THEN [scanned EXCEPT ![p] =
                           Some([arch |-> arch[p],
                                 files |-> r.w.cfile[_get_cache_file_path(p)]
                                               .doc["metadata"]["audio_files"]])]
                  ELSE scanned
    /\ UNCHANGED <<envSteps, frame, scan_metadata>>

LoadZip(p) == Loads(p, load_zip(World, p))

ListAudioFiles(p) == Does("list_audio_files", p, None, list_audio_files(World, p))

(***************************************************************************)
(* The disk changes from outside the program.                              *)
(***************************************************************************)
Outside(what, path) ==
    /\ envSteps < MaxEnv
    /\ envSteps' = envSteps + 1
    /\ last' = [NoCall EXCEPT !.op = what, !.path = path, !.before = World]

\* An archive is replaced or touched, within the tick of its last change or
\* in the next one.
ModifyArchive(p) ==
    /\ arch[p].exists
    /\ \E c \in {"k1", "k2", "k3"}, m \in {arch[p].mtime, arch[p].mtime + 1} :
          /\ m <= MaxTick
          /\ Archive(c, m) # arch[p]
          /\ arch' = [arch EXCEPT ![p] = Archive(c, m)]
    /\ Outside("modify", p)
    /\ UNCHANGED <<cfile, ifile, cache_index, open_zips, loaded, scanned, disk>>
    /\ UNCHANGED extraction

DeleteArchive(p) ==
    /\ arch[p].exists
    /\ arch' = [arch EXCEPT ![p] = NoArchive]
    /\ Outside("delete", p)
    /\ UNCHANGED <<cfile, ifile, cache_index, open_zips, loaded, scanned, disk>>
    /\ UNCHANGED extraction

\* An entry file is damaged: replaced by text that is not JSON, by the
\* empty document, deleted, or rewritten without one of its fields.
CorruptKinds ==
    {"malformed", "empty", "absent", "metadata", "file_stats", "size", "mtime"}

Corrupted(file, kind) ==
    CASE kind = "malformed" -> Malformed
      [] kind = "empty" -> Json(EmptyDict)
      [] kind = "absent" -> Absent
      [] kind \in {"metadata", "file_stats"} -> Json(DictDel(file.doc, kind))
      [] OTHER -> Json(DictSet(file.doc, "file_stats", DictDel(file.doc["file_stats"], kind)))

CorruptEntry(f) ==
    /\ cfile[f].kind = "json"
    /\ \E kind \in CorruptKinds :
          /\ kind \in {"metadata", "file_stats"} => kind \in DOMAIN cfile[f].doc
          /\ kind \in {"size", "mtime"} =>
                /\ "file_stats" \in DOMAIN cfile[f].doc
                /\ kind \in DOMAIN cfile[f].doc["file_stats"]
          /\ cfile' = [cfile EXCEPT ![f] = Corrupted(cfile[f], kind)]
    /\ Outside("corrupt", "")
    /\ UNCHANGED <<arch, ifile, cache_index, open_zips, loaded, scanned, disk>>
    /\ UNCHANGED extraction

CorruptIndex ==
    /\ ifile.kind = "json"
    /\ ifile' = Malformed
    /\ Outside("corrupt_index", "")
    /\ UNCHANGED <<arch, cfile, cache_index, open_zips, loaded, scanned, disk>>
    /\ UNCHANGED extraction

Environment ==
    \/ \E p \in Paths : ModifyArchive(p)
    \/ \E p \in Paths : DeleteArchive(p)
    \/ \E f \in CacheFilePaths : CorruptEntry(f)
    \/ CorruptIndex

\* The cache directory stops taking writes.
DiskFails(d) ==
    /\ disk = "ok"
    /\ disk' = d
    /\ Outside("disk", "")
    /\ UNCHANGED <<arch, cfile, ifile, cache_index, open_zips, loaded, scanned>>
    /\ UNCHANGED extraction

\* The cache used through the CacheManager alone.
NextCache ==
    \/ \E p \in Paths : GetCachedMetadata(p)
    \/ \E p \in Paths : \E m \in Payloads(p) : CacheMetadata(p, m)
    \/ \E p \in Paths : RemoveFromCache(p)
    \/ ClearCache
    \/ Restart
    \/ Environment

SpecCache == Init /\ [][NextCache]_vars

\* The CacheManager over a cache directory that may stop taking writes.
NextDisk ==
    \/ \E p \in Paths : GetCachedMetadata(p)
    \/ \E p \in Paths : \E m \in Payloads(p) : CacheMetadata(p, m)
    \/ \E p \in Paths : RemoveFromCache(p)
    \/ ClearCache
    \/ Restart
    \/ \E d \in {"readonly", "full"} : DiskFails(d)

SpecDisk == Init /\ [][NextDisk]_vars

\* An entry file is rewritten with a payload that lacks the list of audio
\* files or the count of entries.
CorruptPayload(f) ==
    /\ cfile[f].kind = "json"
    /\ "metadata" \in DOMAIN cfile[f].doc
    /\ \E k \in {"audio_files", "total_files"} :
          /\ k \in DOMAIN cfile[f].doc["metadata"]
          /\ cfile' = [cfile EXCEPT ![f] =
                           Json(DictSet(cfile[f].doc, "metadata",
                                        DictDel(cfile[f].doc["metadata"], k)))]
    /\ Outside("corrupt_payload", "")
    /\ UNCHANGED <<arch, ifile, cache_index, open_zips, loaded, scanned, disk>>
    /\ UNCHANGED extraction

\* The ZipManager over a cache whose payloads may be partial.
NextPayload ==
    \/ \E p \in Paths : LoadZip(p)
    \/ \E p \in Paths : ListAudioFiles(p)
    \/ Restart
    \/ \E f \in CacheFilePaths : CorruptPayload(f)

SpecPayload == Init /\ [][NextPayload]_vars

(***************************************************************************)
(* The live scan alone, on the directories an archive can have: every      *)
(* sequence of up to MaxNames different entry names, and the directory of  *)
(* an archive with three audio files, a text and an image.                 *)
(***************************************************************************)
MaxNames == 3

EntryNames ==
    {"drums/kick.wav", "drums/Snare.wav", "amb/room.ogg", "B/b.wav", "A/a.mp3", "a/c.ogg",
     "audio1.wav", "__MACOSX/._audio1.wav", "text.txt", "image.jpg", "._h.wav", "LOUD.WAV",
     "A/z.wav", "notes.WAV.txt", "a/__MACOSX/._x.wav"}

SampleDirectory == <<"audio1.wav", "text.txt", "A/a.mp3", "image.jpg", "a/c.ogg">>

Directories ==
    {d \in UNION {[1..n -> EntryNames] : n \in 0..MaxNames} :
        \A i, j \in 1..Len(d) : i # j => d[i] # d[j]}
    \cup {SampleDirectory}

InitScan ==
    /\ arch = InitArch
    /\ cfile = [f \in CacheFilePaths |-> Absent]
    /\ ifile = Absent
    /\ cache_index = EmptyDict
    /\ open_zips = EmptyDict
    /\ loaded = [p \in Paths |-> None]
    /\ scanned = [p \in Paths |-> None]
    /\ envSteps = 0
    /\ disk = "ok"
    /\ extracted_files = <<>>
    /\ temp_dir = Some(TempDirName)
    /\ outfiles = NoOutFiles
    /\ unreferenced = {}
    /\ frame = None
    /\ scan_metadata = EmptyDict
    /\ \E d \in Directories : last = [NoCall EXCEPT !.op = "namelist", !.arg = Some(d)]

\* list_audio_files scans the directory: all_files is last.arg, the list
\* returned is last.ret.
ScanDirectory ==
    /\ last.op = "namelist"
    /\ last' = [last EXCEPT !.op = "scan", !.ret = Some(ScanAudioFiles(last.arg.val))]
    /\ UNCHANGED <<arch, cfile, ifile, cache_index, open_zips, loaded, scanned, envSteps, disk>>
    /\ UNCHANGED extraction

SpecScan == InitScan /\ [][ScanDirectory]_vars

(***************************************************************************)
(* A session of the ZipManager on one archive path: the archive found at   *)
(* the start is any of the contents or is missing, and the session loads,  *)
(* lists, reads, streams, extracts, closes and cleans up while the archive *)
(* may be replaced or deleted from outside.                                *)
(***************************************************************************)
MaxExtracted == 2

SessionPaths == {"d1/s.zip"}

SessionNames == {"a/x.wav", "audio1.wav"}

ExtractNames == {"a/x.wav", "b/x.wav", "audio1.wav"}

NameLists ==
    {<<"a/x.wav">>, <<"a/x.wav", "b/x.wav">>, <<"b/x.wav", "a/x.wav">>,
     <<"a/x.wav", "audio1.wav">>, <<"audio1.wav", "a/x.wav">>}

InitSession ==
    /\ \E a \in {Archive(c, 0) : c \in {"dup", "k3", "bad", "txt", "hid"}} \cup {NoArchive} :
          arch = [InitArch EXCEPT !["d1/s.zip"] = a]
    /\ cfile = [f \in CacheFilePaths |-> Absent]
    /\ ifile = Absent
    /\ cache_index = EmptyDict
    /\ open_zips = EmptyDict
    /\ loaded = [p \in Paths |-> None]
    /\ scanned = [p \in Paths |-> None]
    /\ last = NoCall
    /\ envSteps = 0
    /\ disk = "ok"
    /\ extracted_files = <<>>
    /\ temp_dir = Some(TempDirName)
    /\ outfiles = NoOutFiles
    /\ unreferenced = {}
    /\ frame = None
    /\ scan_metadata = EmptyDict

ReadFile(p, n) == Does("read_file", p, Some([file_name |-> n]), read_file(World, p, n))

StreamFile(p, n) ==
    Does("stream_file", p, Some([file_name |-> n]), stream_file(World, p, n))

\* The first next() on the generator that the last call returned.
NextChunk ==
    /\ last.op = "stream_file"
    /\ Does("next", last.path, last.arg,
            StreamNext(World, last.ret.val.zip_path, last.ret.val.file_name))

ExtractFile(p, n, d) ==
    /\ Len(extracted_files) < MaxExtracted
    /\ Does("extract_file", p, Some([file_name |-> n, output_dir |-> d]),
            extract_file(World, p, n, d))

ExtractFiles(p, ns, d) ==
    /\ Len(extracted_files) + Len(ns) <= MaxExtracted
    /\ Does("extract_files", p, Some([file_names |-> ns, output_dir |-> d]),
            extract_files(World, p, ns, d))

Cleanup == Does("cleanup", "", None, cleanup(World))

CloseZip(p) == Does("close_zip", p, None, close_zip(World, p))

GetOpenZips == Does("get_open_zips", "", None, Return(World, Some(get_open_zips(World))))

\* The archive is replaced by one of another content: one that is not a
\* ZIP file, one without audio, or one with other entries.
ReplaceArchive(p) ==
    /\ arch[p].exists
    /\ \E c \in {"dup", "k3", "bad", "txt"} :
          /\ Archive(c, arch[p].mtime) # arch[p]
          /\ arch' = [arch EXCEPT ![p] = Archive(c, arch[p].mtime)]
    /\ Outside("replace", p)
    /\ UNCHANGED <<cfile, ifile, cache_index, open_zips, loaded, scanned, disk>>
    /\ UNCHANGED extraction

NextSession ==
    \/ \E p \in SessionPaths : LoadZip(p)
    \/ \E p \in SessionPaths : ListAudioFiles(p)
    \/ \E p \in SessionPaths, n \in SessionNames : ReadFile(p, n)
    \/ \E p \in SessionPaths, n \in SessionNames : StreamFile(p, n)
    \/ NextChunk
    \/ \E p \in SessionPaths, n \in SessionNames : ExtractFile(p, n, "out")
    \/ Cleanup
    \/ \E p \in SessionPaths : CloseZip(p)
    \/ GetOpenZips
    \/ \E p \in SessionPaths : DeleteArchive(p)
    \/ \E p \in SessionPaths : ReplaceArchive(p)

SpecSession == InitSession /\ [][NextSession]_vars

(***************************************************************************)
(* Streaming: a session on one archive reads entries whole and in chunks   *)
(* of every size, while the archive is replaced or deleted from outside.   *)
(***************************************************************************)
MaxChunk == 3

DefaultChunkSize == 8192

ChunkSizes == 1..MaxChunk \cup {DefaultChunkSize}

StreamNames == {"a/x.wav", "audio1.wav", "image.jpg", "text.txt"}

ListStreamFile(p, n, chunk_size) ==
    Does("list_stream_file", p, Some([file_name |-> n, chunk_size |-> chunk_size]),
         StreamList(World, p, n, chunk_size))

NextStream ==
    \/ \E p \in SessionPaths : LoadZip(p)
    \/ \E p \in SessionPaths, n \in StreamNames : ReadFile(p, n)
    \/ \E p \in SessionPaths, n \in StreamNames, chunk_size \in ChunkSizes :
          ListStreamFile(p, n, chunk_size)
    \/ \E p \in SessionPaths : CloseZip(p)
    \/ \E p \in SessionPaths : ReplaceArchive(p)

SpecStream == InitSession /\ [][NextStream]_vars

(***************************************************************************)
(* Extraction alone: a session on an archive with audio entries extracts   *)
(* single entries and lists of entries to the three kinds of output        *)
(* directory, and cleans up.                                               *)
(***************************************************************************)
InitExtract ==
    /\ InitSession
    /\ arch["d1/s.zip"].exists
    /\ arch["d1/s.zip"].content \in {"dup", "k3"}

NextExtract ==
    \/ \E p \in SessionPaths : LoadZip(p)
    \/ \E p \in SessionPaths, n \in ExtractNames, d \in OutDirs : ExtractFile(p, n, d)
    \/ \E p \in SessionPaths, ns \in NameLists, d \in OutDirs : ExtractFiles(p, ns, d)
    \/ Cleanup

SpecExtract == InitExtract /\ [][NextExtract]_vars

(***************************************************************************)
(* Durations and tags asked for entry by entry, next to load_zip and       *)
(* list_audio_files.  The entries asked for are those of the first         *)
(* archive; the second archive is loaded too, the cache may be cleared and *)
(* the first archive changed from outside.                                 *)
(***************************************************************************)
DurationNames == {"drums/kick.wav", "amb/room.ogg"}

GetAudioDuration(p, n) ==
    Does("get_audio_duration", p, Some([file_name |-> n]), get_audio_duration(World, p, n))

GetFileDuration(p, n) ==
    Does("get_file_duration", p, Some([file_name |-> n]), get_file_duration(World, p, n))

GetFullAudioMetadata(p, n) ==
    Does("get_full_audio_metadata", p, Some([file_name |-> n]),
         get_full_audio_metadata(World, p, n))

NextDuration ==
    \/ \E p \in Paths : LoadZip(p)
    \/ \E p \in SessionPaths : ListAudioFiles(p)
    \/ \E p \in SessionPaths, n \in DurationNames : GetAudioDuration(p, n)
    \/ \E p \in SessionPaths, n \in DurationNames : GetFileDuration(p, n)
    \/ \E p \in SessionPaths, n \in DurationNames : GetFullAudioMetadata(p, n)
    \/ ClearCache
    \/ \E p \in SessionPaths : ModifyArchive(p)

InitDuration == Init /\ cache_index = EmptyDict

SpecDuration == InitDuration /\ [][NextDuration]_vars

\* The cache used through the ZipManager, as the application does.
(***************************************************************************)
(* Durations from headers: get_audio_duration with header sizes below and  *)
(* above the sizes of the entries, whatever mutagen makes of a header.     *)
(***************************************************************************)
MaxHeader == 4

HeaderSizes == 1..MaxHeader \cup {DefaultMaxHeaderSize}

GetAudioDurationOfHeader(p, n, max_header_size, header) ==
    Does("get_audio_duration", p,
         Some([file_name |-> n, max_header_size |-> max_header_size, header |-> header]),
         get_audio_duration_of_header(World, p, n, max_header_size, header))

NextHeader ==
    \/ \E p \in SessionPaths : LoadZip(p)
    \/ \E p \in SessionPaths, n \in DurationNames, max_header_size \in HeaderSizes,
          header \in MutagenOutcomes :
          GetAudioDurationOfHeader(p, n, max_header_size, header)
    \/ \E p \in SessionPaths : CloseZip(p)
    \/ ClearCache

SpecHeader == InitDuration /\ [][NextHeader]_vars

(***************************************************************************)
(* Loading in steps: while load_zip scans the archive, the handlers of the *)
(* application ask for durations and tags of its entries, the archive is   *)
(* replaced, and the entry file is damaged.                                *)
(***************************************************************************)
InitLoading ==
    /\ InitSession
    /\ arch["d1/s.zip"].exists
    /\ arch["d1/s.zip"].content \in {"dup", "k3"}

Scanning == frame # None

\* The histories of load_zip, as in Loads.
Loaded_(p, r) ==
    /\ loaded' = IF r.exc = "none"
                 THEN [loaded EXCEPT ![p] = Some(_calculate_file_stats(World, p))]
                 ELSE loaded
    /\ scanned' = IF r.exc = "none" /\ r.ret = Some(FALSE)
                  THEN [scanned EXCEPT ![p] =
                           Some([arch |-> arch[p],
                                 files |-> r.w.cfile[_get_cache_file_path(p)]
                                               .doc["metadata"]["audio_files"]])]
                  ELSE scanned

LoadBegun(p, b) ==
    IF b.ended THEN Loads(p, b.r)
    ELSE /\ Becomes(b.r.w)
         /\ frame' = Some(ScanFrame(p, b.r.ret.val))
         /\ scan_metadata' = EmptyDict
         /\ last' = Call("load_zip_begin", p, None, Return(b.r.w, None))
         /\ UNCHANGED <<loaded, scanned, envSteps>>

LoadBegin(p) ==
    /\ ~Scanning
    /\ LoadBegun(p, load_zip_begin(World, p))

\* A turn of the loop is due, and it is made.
TurnDue ==
    /\ Scanning
    /\ frame.val.i < Len(frame.val.audio_files)
    /\ frame' = Some(NextTurn(frame.val))

LoadBatched(m) ==
    /\ Becomes(m.w)
    /\ scan_metadata' = m.file_metadata
    /\ last' = Call("load_zip_batch", frame.val.zip_path, None, Return(m.w, None))
    /\ UNCHANGED <<loaded, scanned, envSteps>>

LoadBatch ==
    /\ TurnDue
    /\ frame.val.zip_path \in DOMAIN open_zips
    /\ LoadBatched(load_zip_batch(World, frame.val, scan_metadata))

\* The end of the call is due, and the call ends.
EndDue ==
    /\ Scanning
    /\ frame.val.i >= Len(frame.val.audio_files)
    /\ frame' = None

LoadEnded(p, r) ==
    /\ Becomes(r.w)
    /\ scan_metadata' = EmptyDict
    /\ last' = Call("load_zip", p, None, r)
    /\ Loaded_(p, r)
    /\ UNCHANGED envSteps

LoadFinish ==
    /\ EndDue
    /\ LoadEnded(frame.val.zip_path, load_zip_end(World, frame.val, scan_metadata))

\* A handler of the application asks for the duration or for the tags of an
\* entry; what it gets is recorded under the name of what it asked for.
DurationAnswer(r) ==
    [r EXCEPT !.ret = IF @ = None THEN None ELSE [duration_ms |-> @.val]]

MetadataAnswer(r) ==
    [r EXCEPT !.ret = IF @ = None THEN None ELSE [full_metadata |-> @.val]]

DurationWanted(p, n) ==
    Does("get_file_duration", p, Some([file_name |-> n]),
         DurationAnswer(get_file_duration(World, p, n)))

MetadataWanted(p, n) ==
    Does("get_full_audio_metadata", p, Some([file_name |-> n]),
         MetadataAnswer(get_full_audio_metadata(World, p, n)))

\* The archive is replaced by one of another size, written later.
ReplaceWhileOpen(p) ==
    /\ arch[p].exists
    /\ \E c \in {"dup", "k3"} :
          /\ c # arch[p].content
          /\ arch' = [arch EXCEPT ![p] = Archive(c, arch[p].mtime + 1)]
    /\ Outside("replace", p)
    /\ UNCHANGED <<cfile, ifile, cache_index, open_zips, loaded, scanned, disk>>
    /\ UNCHANGED extraction

NextLoading ==
    \/ \E p \in SessionPaths : LoadBegin(p)
    \/ LoadBatch
    \/ LoadFinish
    \/ \E p \in SessionPaths, n \in SessionNames : DurationWanted(p, n)
    \/ \E p \in SessionPaths, n \in SessionNames : MetadataWanted(p, n)
    \/ \E p \in SessionPaths : ReplaceWhileOpen(p)
    \/ \E f \in CacheFilePaths : CorruptEntry(f)

\* load_zip runs on whatever runs in between: a turn of its loop that is
\* due is made, and so is the end of the call (LoadBatch and LoadFinish are
\* the steps that change frame).
SpecLoading ==
    InitLoading /\ [][NextLoading]_vars /\ WF_frame(TurnDue) /\ WF_frame(EndDue)

(***************************************************************************)
(* Handles: a session on one archive that is loaded, read, closed and      *)
(* replaced.  A handle that the program lets go of without closing it is   *)
(* closed when the runtime finalises the ZipFile object: at the return of  *)
(* the call where objects are counted, later or never where they are       *)
(* traced.                                                                 *)
(***************************************************************************)
\* The outcome r of a call, when the runtime finalises at once what the call
\* let go of, and when it does not.
Finalized(r, at_once) == IF at_once THEN [r EXCEPT !.w.unreferenced = {}] ELSE r

LoadZipFinalizing(p, at_once) == Loads(p, Finalized(load_zip(World, p), at_once))

\* The runtime collects the handles that the program let go of.
Collect ==
    /\ unreferenced # {}
    /\ unreferenced' = {}
    /\ UNCHANGED <<arch, cfile, ifile, cache_index, open_zips, loaded, scanned, last,
                   envSteps, disk, extracted_files, temp_dir, outfiles, frame,
                   scan_metadata>>

NextHandles ==
    \/ \E p \in SessionPaths, at_once \in BOOLEAN : LoadZipFinalizing(p, at_once)
    \/ \E p \in SessionPaths, n \in SessionNames : ReadFile(p, n)
    \/ \E p \in SessionPaths : CloseZip(p)
    \/ Cleanup
    \/ \E p \in SessionPaths : ReplaceArchive(p)
    \/ Collect

SpecHandles == InitSession /\ [][NextHandles]_vars

Next ==
    \/ \E p \in Paths : LoadZip(p)
    \/ \E p \in Paths : ListAudioFiles(p)
    \/ Restart
    \/ Environment

Spec == Init /\ [][Next]_vars

(***************************************************************************)
(* Properties.                                                             *)
(***************************************************************************)
Indexed(w, p) == p \in DOMAIN w.cache_index
EntryFile(w, p) == w.cfile[_get_cache_file_path(p)]
HasDocument(w, p) == EntryFile(w, p).kind = "json"
Document(w, p) == EntryFile(w, p).doc

\* The entry of p records a fingerprint with both fields.
HasFingerprint(w, p) ==
    /\ HasDocument(w, p)
    /\ "file_stats" \in DOMAIN Document(w, p)
    /\ {"size", "mtime"} \subseteq DOMAIN Document(w, p)["file_stats"]

\* p has a valid cache entry: it is registered, and its entry file records
\* the size and mtime the archive has now, and a payload.
ValidEntry(w, p) ==
    /\ w.arch[p].exists
    /\ Indexed(w, p)
    /\ HasFingerprint(w, p)
    /\ Document(w, p)["file_stats"] = _calculate_file_stats(w, p)
    /\ "metadata" \in DOMAIN Document(w, p)

\* C1: load_zip of an archive that has a valid cache entry returns with
\* used_cache = True without touching the archive: no handle is added to
\* open_zips, no directory scan and no duration probe runs; and a load_zip
\* that directly follows a successful load_zip of the same archive makes no
\* archive access.
C1_CacheHitWithoutArchiveIO ==
    last.op = "load_zip" =>
        /\ ValidEntry(last.before, last.path) =>
              /\ last.exc = "none"
              /\ last.ret = Some(TRUE)
              /\ last.io = NoIO
              /\ open_zips = last.before.open_zips
        /\ last.repeat => last.exc = "none" /\ last.io = NoIO

C1_Witness ==
    /\ last.op = "load_zip"
    /\ ValidEntry(last.before, last.path)
    /\ last.path \notin DOMAIN last.before.open_zips
    /\ last.repeat

\* C2: whenever load_zip returns successfully, the cache holds an entry for
\* the archive that get_cached_metadata, called right away, returns.
C2_LoadStoresEntry ==
    last.op = "load_zip" /\ last.exc = "none" =>
        /\ get_cached_metadata(World, last.path).exc = "none"
        /\ get_cached_metadata(World, last.path).ret # None

\* The entry of p does not fit the archive: the fingerprint (or the size of
\* a legacy entry) differs from the archive's, or the document has neither
\* a fingerprint nor a checksum.
Mismatch(w, p) ==
    LET doc == Document(w, p)
        cur == _calculate_file_stats(w, p)
    IN  \/ HasFingerprint(w, p) /\ doc["file_stats"] # cur
        \/ /\ "file_stats" \notin DOMAIN doc
           /\ "checksum" \in DOMAIN doc
           /\ cur.size # (IF "size" \in DOMAIN doc THEN doc["size"] ELSE 0)
        \/ "file_stats" \notin DOMAIN doc /\ "checksum" \notin DOMAIN doc

StaleEntry(w, p) ==
    /\ w.arch[p].exists
    /\ Indexed(w, p)
    /\ HasDocument(w, p)
    /\ Mismatch(w, p)

Invalidated(p) ==
    /\ last.exc = "none"
    /\ last.ret = None
    /\ EntryFile(World, p) = Absent
    /\ ~Indexed(World, p)
    /\ ifile.kind = "json" /\ p \notin DOMAIN ifile.doc

C4_ReloadListsCurrentContent ==
    /\ last.op = "load_zip"
    /\ last.exc = "none"
    /\ last.before.loaded[last.path] # None
    /\ last.before.loaded[last.path] # Some(_calculate_file_stats(World, last.path))
    => /\ list_audio_files(World, last.path).exc = "none"
       /\ list_audio_files(World, last.path).ret =
              Some(ScanAudioFiles(Namelist(arch[last.path].content)))

\* C5: storing or invalidating the entry of one path leaves what
\* get_cached_metadata returns for every other path as it was.
C5_EntriesIndependent ==
    last.op \in {"cache_metadata", "remove_from_cache", "get_cached_metadata"} =>
        \A q \in Paths \ {last.path} :
            get_cached_metadata(World, q).ret = get_cached_metadata(last.before, q).ret

\* C6: get_cached_metadata right after cache_metadata(path, payload) returns
\* a payload equal to the one stored.
C6_RoundTrip ==
    last.op = "cache_metadata" /\ last.exc = "none" =>
        get_cached_metadata(World, last.path).ret = last.arg

\* C7: a list served from the cache for an archive that is as it was when
\* load_zip last scanned it and stored the list is that list.
C7_CachedListIsScannedList ==
    /\ last.op = "list_audio_files"
    /\ last.exc = "none"
    /\ last.io.scans = 0
    /\ scanned[last.path] # None
    /\ scanned[last.path].val.arch = arch[last.path]
    => last.ret = Some(scanned[last.path].val.files)

\* A legacy entry whose stored size is the size of the archive.
LegacyMatch(w, p) ==
    /\ w.arch[p].exists
    /\ Indexed(w, p)
    /\ HasDocument(w, p)
    /\ "file_stats" \notin DOMAIN Document(w, p)
    /\ "checksum" \in DOMAIN Document(w, p)
    /\ "size" \in DOMAIN Document(w, p)
    /\ Document(w, p)["size"] = _calculate_file_stats(w, p).size
    /\ "metadata" \in DOMAIN Document(w, p)

\* The world with the checksum and the legacy size taken out of p's entry.
WithoutChecksum(w, p) ==
    [w EXCEPT !.cfile[_get_cache_file_path(p)] =
        Json(DictDel(DictDel(Document(w, p), "checksum"), "size"))]

\* C8: get_cached_metadata of a legacy entry whose size matches returns its
\* payload and rewrites the entry with the fingerprint of the archive; the
\* next lookup then succeeds, also without the checksum in the entry.
C8_LegacyUpgrade ==
    last.op = "get_cached_metadata" /\ LegacyMatch(last.before, last.path) =>
        /\ last.exc = "none"
        /\ last.ret = Some(Document(last.before, last.path)["metadata"])
        /\ HasFingerprint(World, last.path)
        /\ Document(World, last.path)["file_stats"] = _calculate_file_stats(World, last.path)
        /\ get_cached_metadata(World, last.path) = Return(World, last.ret)
        /\ get_cached_metadata(WithoutChecksum(World, last.path), last.path).ret = last.ret

C8_Witness ==
    /\ last.op = "get_cached_metadata"
    /\ LegacyMatch(last.before, last.path)
    /\ last.ret # None

\* A registered archive that exists and whose entry file is not JSON.
MalformedEntry(w, p) ==
    /\ w.arch[p].exists
    /\ Indexed(w, p)
    /\ EntryFile(w, p) = Malformed

\* C9: get_cached_metadata of a malformed entry returns None and does not
\* raise; cache_metadata then succeeds, and the next get_cached_metadata
\* returns the payload it stored.
C9_CorruptEntryOverwritten ==
    /\ last.op = "get_cached_metadata" /\ MalformedEntry(last.before, last.path) =>
          last.exc = "none" /\ last.ret = None
    /\ last.op = "cache_metadata" /\ MalformedEntry(last.before, last.path) =>
          /\ last.exc = "none"
          /\ get_cached_metadata(World, last.path).exc = "none"
          /\ get_cached_metadata(World, last.path).ret = last.arg

\* C10: get_cached_metadata never raises.
C10_LookupNeverRaises ==
    last.op = "get_cached_metadata" => last.exc = "none"

\* The index registers p, the archive exists, and the entry file the index
\* names is not on disk.
MissingEntryFile(w, p) ==
    /\ w.arch[p].exists
    /\ Indexed(w, p)
    /\ w.cfile[w.cache_index[p]] = Absent

\* C11: when the index names an entry file that is not on disk,
\* get_cached_metadata returns None and raises nothing, and load_zip scans
\* the archive and stores a fresh entry.
C11_MissingEntryFileIsMiss ==
    /\ \A p \in Paths :
          MissingEntryFile(World, p) => get_cached_metadata(World, p) = Return(World, None)
    /\ last.op = "load_zip" /\ MissingEntryFile(last.before, last.path) =>
          /\ last.exc = "none"
          /\ last.ret = Some(FALSE)
          /\ last.io.scans > 0
          /\ ValidEntry(World, last.path)

\* C12: a cache_metadata whose write of the entry file fails raises nothing
\* and leaves cache_index as it was.
C12_FailedWriteLeavesIndex ==
    last.op = "cache_metadata" /\ last.before.disk # "ok" =>
        /\ last.exc = "none"
        /\ cache_index = last.before.cache_index

\* The index registers p and the archive is not on disk.
ArchiveGone(w, p) == Indexed(w, p) /\ ~w.arch[p].exists

\* C13: get_cached_metadata of a registered path whose archive is gone
\* returns None and removes the entry file and the index registration.
C13_GoneArchiveEntryRemoved ==
    last.op = "get_cached_metadata" /\ ArchiveGone(last.before, last.path) =>
        Invalidated(last.path)

\* p has a valid entry whose payload lacks audio_files or total_files.
PartialPayload(w, p) ==
    /\ ValidEntry(w, p)
    /\ ~({"audio_files", "total_files"} \subseteq DOMAIN Document(w, p)["metadata"])

\* C14: a payload without audio_files or total_files is a miss: load_zip
\* does not report used_cache and scans the archive, and list_audio_files
\* scans the archive instead of serving the cached list.
C14_PartialPayloadIsMiss ==
    /\ last.op = "load_zip" /\ PartialPayload(last.before, last.path) =>
          last.exc = "none" /\ last.ret = Some(FALSE) /\ last.io.scans > 0
    /\ last.op = "list_audio_files" /\ PartialPayload(last.before, last.path) =>
          last.exc = "none" /\ last.io.scans > 0

\* C15: after cache_metadata(path, payload), a CacheManager constructed anew
\* over the same cache directory returns that payload for the path and
\* lists the path in list_cached_zips.
C15_EntrySurvivesRestart ==
    last.op = "cache_metadata" /\ last.exc = "none" =>
        /\ get_cached_metadata(CacheManagerInit(World), last.path).ret = last.arg
        /\ last.path \in list_cached_zips(CacheManagerInit(World))

\* C16: remove_from_cache(path) raises nothing and leaves the path without
\* entry file and without registration, in memory and in the index file,
\* the other registrations and entry files being kept; for a path
\* that is not registered it changes nothing, and so does a second call.
C16_RemoveIdempotent ==
    last.op = "remove_from_cache" =>
        /\ last.exc = "none"
        /\ ~Indexed(World, last.path)
        /\ Indexed(last.before, last.path) =>
              /\ cfile[last.before.cache_index[last.path]] = Absent
              /\ \A f \in CacheFilePaths \ {last.before.cache_index[last.path]} :
                    cfile[f] = last.before.cfile[f]
              /\ cache_index = DictDel(last.before.cache_index, last.path)
              /\ ifile = Json(cache_index)
        /\ ~Indexed(last.before, last.path) =>
              /\ cfile = last.before.cfile
              /\ ifile = last.before.ifile
              /\ cache_index = last.before.cache_index
        /\ remove_from_cache(World, last.path) = World

C16_Witness ==
    /\ last.op = "remove_from_cache"
    /\ Indexed(last.before, last.path)
    /\ HasDocument(last.before, last.path)
    /\ DOMAIN cache_index # {}

\* C17: after clear_cache the index is empty, in memory and in the index
\* file, no entry file is left in the cache directory, and
\* get_cached_metadata returns None for every path.
C17_ClearRemovesEverything ==
    last.op = "clear_cache" =>
        /\ last.exc = "none"
        /\ cache_index = EmptyDict
        /\ ifile = Json(EmptyDict)
        /\ \A f \in CacheFilePaths : cfile[f] = Absent
        /\ \A p \in Paths : get_cached_metadata(World, p) = Return(World, None)

\* a <= b without regard to case.
LowerLeq(a, b) == ~SeqLess(LowerCodes(b), LowerCodes(a))

\* C18: the list returned by the scan is grouped by folder, the folders in
\* ascending order without regard to case and the entries of a folder in
\* ascending order of base name without regard to case; the two directories
\* given as examples are listed as stated.
C18_OrderingLaw ==
    last.op = "scan" =>
        LET r == last.ret.val
            folder(i) == Dirname(Chars[r[i]])
            base(i) == Basename(Chars[r[i]])
        IN  /\ \A i, j \in 1..Len(r) : i < j =>
                  /\ LowerLeq(folder(i), folder(j))
                  /\ folder(i) = folder(j) =>
                        /\ LowerLeq(base(i), base(j))
                        /\ \A k \in i..j : folder(k) = folder(i)
            /\ last.arg.val = <<"B/b.wav", "A/a.mp3", "a/c.ogg">> =>
                  r = <<"A/a.mp3", "a/c.ogg", "B/b.wav">>
            /\ last.arg.val = <<"drums/kick.wav", "drums/Snare.wav", "amb/room.ogg">> =>
                  r = <<"amb/room.ogg", "drums/kick.wav", "drums/Snare.wav">>

C18_Witness ==
    /\ last.op = "scan"
    /\ last.arg.val = <<"drums/kick.wav", "drums/Snare.wav", "amb/room.ogg">>
    /\ Len(last.ret.val) = 3

\* The entry is a hidden file (its base name begins with "._") or lies
\* under a folder named __MACOSX.
HiddenEntry(name) ==
    LET c == Chars[name]
        macosx == <<"_", "_", "M", "A", "C", "O", "S", "X", "/">>
    IN  \/ StartsWith(Basename(c), <<".", "_">>)
        \/ \E i \in 1..Len(c) :
              /\ i = 1 \/ c[i - 1] = "/"
              /\ StartsWith(SubSeq(c, i, Len(c)), macosx)

\* C19: the scan returns no hidden entry and no entry under __MACOSX, also
\* when its extension is an audio extension; the directory
\* __MACOSX/._audio1.wav, audio1.wav is listed as audio1.wav alone.
C19_HiddenNeverListed ==
    last.op = "scan" =>
        /\ \A i \in 1..Len(last.ret.val) : ~HiddenEntry(last.ret.val[i])
        /\ last.arg.val = <<"__MACOSX/._audio1.wav", "audio1.wav">> =>
              last.ret.val = <<"audio1.wav">>

\* The entry names whose extension is .wav, .mp3 or .ogg in any case.
AudioByExtension ==
    {"drums/kick.wav", "drums/Snare.wav", "amb/room.ogg", "B/b.wav", "A/a.mp3", "a/c.ogg",
     "audio1.wav", "__MACOSX/._audio1.wav", "._h.wav", "LOUD.WAV", "A/z.wav",
     "a/__MACOSX/._x.wav", "a/x.wav", "b/x.wav"}

\* C20: the scan returns, once each, the entries that are not hidden and
\* whose extension is .wav, .mp3 or .ogg in any case, and no other entry;
\* the directory with three audio files, a text and an image gives three
\* names.
C20_ExactlyAudioEntries ==
    last.op = "scan" =>
        /\ SeqRange(last.ret.val) =
              {n \in SeqRange(last.arg.val) : n \in AudioByExtension /\ ~HiddenEntry(n)}
        /\ Len(last.ret.val) = Cardinality(SeqRange(last.ret.val))
        /\ last.arg.val = SampleDirectory => Len(last.ret.val) = 3

\* No valid cache entry serves a call on p in world w: the lookup the call
\* starts with returns None.
NoEntryServes(w, p) ==
    /\ get_cached_metadata(w, p).exc = "none"
    /\ get_cached_metadata(w, p).ret = None

\* The recognized audio entries of an archive of this content: the entries
\* with an audio extension that are not hidden.
RecognizedAudio(content) ==
    {n \in SeqRange(Namelist(content)) : n \in AudioByExtension /\ ~HiddenEntry(n)}

\* The archive of p on disk in world w cannot be parsed, or has no
\* recognized audio entry.
InvalidArchive(w, p) ==
    \/ ~Zip[w.arch[p].content].valid
    \/ RecognizedAudio(w.arch[p].content) = {}

\* C21: load_zip of an existing archive that no valid cache entry serves
\* raises ValueError when the archive cannot be parsed or has no recognized
\* audio entry, and list_audio_files after a successful load_zip returns a
\* list that is not empty.
C21_InvalidArchiveRejected ==
    last.op = "load_zip" /\ last.before.arch[last.path].exists =>
        /\ NoEntryServes(last.before, last.path) /\ InvalidArchive(last.before, last.path) =>
              last.exc = "ValueError"
        /\ last.exc = "none" =>
              /\ list_audio_files(World, last.path).exc = "none"
              /\ list_audio_files(World, last.path).ret.val # <<>>

\* C22: load_zip and extract_file of a path that is not on disk when the
\* call is made raise FileNotFoundError, whatever the cache and open_zips
\* hold.
C22_MissingArchiveNotFound ==
    last.op \in {"load_zip", "extract_file"} /\ ~last.before.arch[last.path].exists =>
        last.exc = "FileNotFoundError"

\* The last call read, streamed (the first next() of the generator) or
\* extracted one entry.
EntryCall == last.op \in {"read_file", "next", "extract_file"}

\* The archive of p on disk in world w is a ZIP file whose directory does
\* not hold the name n.
NotInDirectory(w, p, n) ==
    /\ w.arch[p].exists
    /\ Zip[w.arch[p].content].valid
    /\ ~InNamelist(w.arch[p].content, n)

\* C23: read_file, stream_file (when the generator is started) and
\* extract_file of a name that the directory of the archive on disk does
\* not hold raise KeyError, write no file and record no extracted path.
C23_MissingEntryKeyError ==
    EntryCall /\ NotInDirectory(last.before, last.path, last.arg.val.file_name) =>
        /\ last.exc = "KeyError"
        /\ outfiles = last.before.outfiles
        /\ extracted_files = last.before.extracted_files

\* The last call is a load_zip that returned.
Loaded == last.op = "load_zip" /\ last.exc = "none"

\* The manager holds, for p, a handle on the archive that is on disk.
HoldsHandle(p) ==
    /\ p \in get_open_zips(World)
    /\ open_zips[p] = Handle(arch[p].content)

\* C24 as claimed: after every load_zip that returned, the manager holds a
\* handle on the archive of that path.
C24_LoadHoldsHandle == Loaded => HoldsHandle(last.path)

\* C24, amended: after a load_zip that scanned the archive (used_cache is
\* False) the manager holds a handle on the archive of that path, reported
\* by get_open_zips; a load_zip served by a valid cache entry opens nothing
\* and leaves open_zips as it was.
C24_ScanningLoadHoldsHandle ==
    Loaded =>
        /\ last.ret = Some(FALSE) => HoldsHandle(last.path)
        /\ ~NoEntryServes(last.before, last.path) =>
              /\ last.ret = Some(TRUE)
              /\ open_zips = last.before.open_zips

C24_Witness ==
    /\ Loaded
    /\ last.ret = Some(FALSE)
    /\ last.path \notin DOMAIN last.before.open_zips
    /\ HoldsHandle(last.path)

\* C25: after cleanup no file that extract_file wrote in the session is on
\* disk (the session started with no file in the output directories and
\* nothing else writes there), open_zips is empty and temp_dir is None.
C25_CleanupRemovesExtracted ==
    last.op = "cleanup" =>
        /\ DOMAIN outfiles = {}
        /\ DOMAIN open_zips = {}
        /\ temp_dir = None

\* What the manager holds and what is on disk is the same in the state
\* as before the last call.
Untouched ==
    /\ open_zips = last.before.open_zips
    /\ extracted_files = last.before.extracted_files
    /\ temp_dir = last.before.temp_dir
    /\ outfiles = last.before.outfiles
    /\ cache_index = last.before.cache_index
    /\ cfile = last.before.cfile
    /\ ifile = last.before.ifile

\* The last call is a cleanup that directly follows a cleanup, or a
\* close_zip of a path that has no handle.
CalledAgain ==
    \/ last.op = "cleanup" /\ last.repeat
    \/ last.op = "close_zip" /\ last.path \notin DOMAIN last.before.open_zips

\* An operation on the archive of p opens a handle on it: read_file of its
\* first entry returns, having opened the file once.
Reopens(p) ==
    /\ read_file(World, p, Namelist(arch[p].content)[1]).exc = "none"
    /\ read_file(World, p, Namelist(arch[p].content)[1]).w.io.opens = 1
    /\ read_file(World, p, Namelist(arch[p].content)[1]).w.open_zips[p] =
          Handle(arch[p].content)

\* C26: a cleanup right after a cleanup, and a close_zip of a path that is
\* closed or was never opened, raise nothing and change nothing; after any
\* cleanup or close_zip, an operation on an archive that is on disk and can
\* be parsed opens its handle again.
C26_CleanupIdempotentCloseTolerant ==
    /\ CalledAgain => last.exc = "none" /\ Untouched
    /\ last.op \in {"cleanup", "close_zip"} =>
          \A p \in SessionPaths :
              arch[p].exists /\ Zip[arch[p].content].valid /\ p \notin DOMAIN open_zips =>
                  Reopens(p)

C26_Witness ==
    /\ last.op = "close_zip"
    /\ last.path \notin DOMAIN last.before.open_zips
    /\ last.before.temp_dir = None
    /\ arch[last.path].exists /\ Zip[arch[last.path].content].valid

\* The name n of the archive of p can be extracted to output_dir: the
\* archive on disk is a ZIP file that holds n and the directory takes the
\* file.
Extractable(w, p, n, output_dir) ==
    /\ w.arch[p].exists
    /\ Zip[w.arch[p].content].valid
    /\ InNamelist(w.arch[p].content, n)
    /\ output_dir = "out"

\* C30: extract_files returns the list of the paths it wrote, one for each
\* requested name in the order of the request, each of them a file on disk
\* when the call returns; when one of the names cannot be extracted the
\* call raises and returns no list.
C30_ExtractFilesAllOrRaise ==
    last.op = "extract_files" =>
        /\ last.exc = "none" <=>
              \A i \in 1..Len(last.arg.val.file_names) :
                  Extractable(last.before, last.path, last.arg.val.file_names[i],
                              last.arg.val.output_dir)
        /\ last.exc = "none" =>
              /\ Len(last.ret.val) = Len(last.arg.val.file_names)
              /\ \A i \in 1..Len(last.ret.val) :
                    /\ last.ret.val[i] =
                          OutputPath(last.arg.val.output_dir, last.arg.val.file_names[i])
                    /\ last.ret.val[i] \in DOMAIN outfiles
                    /\ outfiles[last.ret.val[i]].whole
        /\ last.exc # "none" => last.ret = None

C30_Witness ==
    /\ last.op = "extract_files"
    /\ last.exc = "none"
    /\ Len(last.ret.val) = 2
    /\ last.ret.val[1] # last.ret.val[2]

\* The last call is a get_file_duration that got a duration by probing
\* the entry.
ProbedDuration ==
    /\ last.op = "get_file_duration"
    /\ last.exc = "none"
    /\ last.ret # None
    /\ last.io.probes > 0

\* The payload the cache served for p in world w ({} when it served none).
ServedPayload(w, p) ==
    IF NoEntryServes(w, p) THEN EmptyDict ELSE get_cached_metadata(w, p).ret.val

\* The per-file records of a payload.
Records(payload) ==
    IF "file_metadata" \in DOMAIN payload THEN payload["file_metadata"] ELSE EmptyDict

\* The payload new is the payload old with key k of the record of e added
\* or replaced, and nothing else changed.
OnlyAdds(old, new, e, k) ==
    /\ DOMAIN new = DOMAIN old \cup {"file_metadata"}
    /\ \A f \in DOMAIN old \ {"file_metadata"} : new[f] = old[f]
    /\ DOMAIN Records(new) = DOMAIN Records(old) \cup {e}
    /\ \A n \in DOMAIN Records(old) \ {e} : Records(new)[n] = Records(old)[n]
    /\ e \in DOMAIN Records(old) =>
          /\ DOMAIN Records(new)[e] = DOMAIN Records(old)[e] \cup {k}
          /\ \A f \in DOMAIN Records(old)[e] \ {k} : Records(new)[e][f] = Records(old)[e][f]

\* C27: when get_file_duration got the duration d of e by probing, the
\* entry of the archive is valid and records duration_ms = d for e, the
\* payload the cache served before is otherwise unchanged, and the same
\* call made again returns d without opening, scanning or probing the
\* archive.
C27_ProbedDurationCached ==
    ProbedDuration =>
        /\ ValidEntry(World, last.path)
        /\ last.arg.val.file_name \in DOMAIN Records(Document(World, last.path)["metadata"])
        /\ "duration_ms" \in
              DOMAIN Records(Document(World, last.path)["metadata"])[last.arg.val.file_name]
        /\ Records(Document(World, last.path)["metadata"])[last.arg.val.file_name]
              ["duration_ms"] = last.ret.val
        /\ ~NoEntryServes(last.before, last.path) =>
              OnlyAdds(ServedPayload(last.before, last.path),
                       Document(World, last.path)["metadata"],
                       last.arg.val.file_name, "duration_ms")
        /\ get_file_duration(World, last.path, last.arg.val.file_name).exc = "none"
        /\ get_file_duration(World, last.path, last.arg.val.file_name).ret = last.ret
        /\ get_file_duration(World, last.path, last.arg.val.file_name).w.io = NoIO

C27_Witness ==
    /\ ProbedDuration
    /\ ~NoEntryServes(last.before, last.path)
    /\ last.arg.val.file_name \in DOMAIN Records(ServedPayload(last.before, last.path))
    /\ Cardinality(DOMAIN Records(ServedPayload(last.before, last.path))) > 1

\* The payload of the entry of p in world w.
Payload(w, p) == Document(w, p)["metadata"]

\* The record of n in the entry of p has key k in world w.
Populated(w, p, n, k) ==
    /\ ValidEntry(w, p)
    /\ n \in DOMAIN Records(Payload(w, p))
    /\ k \in DOMAIN Records(Payload(w, p))[n]

\* The last call is one of the calls of the accessor that read or fill the
\* cache.
AccessorCall ==
    last.op \in {"load_zip", "list_audio_files", "get_file_duration",
                 "get_full_audio_metadata", "get_audio_duration"}

\* C28: a call of load_zip, list_audio_files, get_file_duration or
\* get_full_audio_metadata leaves every duration_ms and every full_metadata
\* that a valid entry records where it is, with the same value (the calls
\* do not change the archives, so the fingerprints stay as they are).
C28_RecordsAdditiveOnly ==
    AccessorCall =>
        \A p \in Paths : \A n \in DurationNames : \A k \in {"duration_ms", "full_metadata"} :
            Populated(last.before, p, n, k) =>
                /\ Populated(World, p, n, k)
                /\ Records(Payload(World, p))[n][k] = Records(Payload(last.before, p))[n][k]

\* The last call probed the entry it was asked about, and the probe gave
\* no duration: mutagen raised, or returned nothing with a length.
FailedProbe ==
    /\ last.op \in {"get_audio_duration", "get_file_duration"}
    /\ last.exc = "none"
    /\ last.io.probes > 0
    /\ GetInfo(open_zips[last.path].content, last.arg.val.file_name).dur = None

\* C29: get_audio_duration and get_file_duration return None when the probe
\* gives no duration, and the cache then records no duration_ms for the
\* entry; the records that a scanning load_zip stores have no duration_ms
\* for the entries whose probe gave none.
C29_FailedProbeIsNone ==
    /\ FailedProbe =>
          /\ last.ret = None
          /\ ~Populated(World, last.path, last.arg.val.file_name, "duration_ms")
    /\ last.op = "load_zip" /\ last.exc = "none" /\ last.ret = Some(FALSE) =>
          \A n \in DOMAIN Records(Payload(World, last.path)) :
              GetInfo(open_zips[last.path].content, n).dur = None =>
                  "duration_ms" \notin DOMAIN Records(Payload(World, last.path))[n]

C29_Witness ==
    /\ FailedProbe
    /\ last.op = "get_file_duration"
    /\ ValidEntry(World, last.path)
    /\ last.arg.val.file_name \in DOMAIN Records(Payload(World, last.path))

(***************************************************************************)
(* C31: for every entry of an archive and every positive chunk size, the   *)
(* chunks that stream_file yields, put end to end, are the bytes that      *)
(* read_file returns for the entry in the same state; no chunk is longer   *)
(* than chunk_size and none is empty.  Where read_file raises, streaming   *)
(* raises the same error.                                                  *)
(***************************************************************************)
Streamed == last.op = "list_stream_file"

ReadInstead == read_file(last.before, last.path, last.arg.val.file_name)

C31_StreamEqualsRead ==
    Streamed /\ last.arg.val.chunk_size > 0 =>
        /\ last.exc = ReadInstead.exc
        /\ last.exc = "none" =>
              /\ ConcatAll(last.ret.val) = FileRead(EntryBytes(ReadInstead.ret.val), 0, -1)
              /\ \A i \in 1..Len(last.ret.val) :
                    /\ Len(last.ret.val[i]) <= last.arg.val.chunk_size
                    /\ last.ret.val[i] # <<>>

\* An entry of seven bytes was streamed in several chunks, the last one
\* shorter than chunk_size.
C31_Witness ==
    /\ Streamed
    /\ last.exc = "none"
    /\ Len(last.ret.val) > 1
    /\ Len(last.ret.val[Len(last.ret.val)]) < last.arg.val.chunk_size
    /\ Len(ConcatAll(last.ret.val)) = 7


(***************************************************************************)
(* C32: in every cache payload that load_zip, get_file_duration or         *)
(* get_full_audio_metadata writes, every name of audio_files has a record  *)
(* in file_metadata, and the record has size and timestamp.                *)
(***************************************************************************)
\* The last call was one of the three and wrote the entry file of its path.
WrotePayload ==
    /\ last.op \in {"load_zip", "get_file_duration", "get_full_audio_metadata"}
    /\ HasDocument(World, last.path)
    /\ EntryFile(World, last.path) # EntryFile(last.before, last.path)
    /\ {"audio_files", "file_metadata"} \subseteq DOMAIN Payload(World, last.path)

\* Every listed name of the payload has a record with size and timestamp.
RecordsComplete(payload) ==
    \A i \in 1..Len(payload["audio_files"]) :
        /\ payload["audio_files"][i] \in DOMAIN Records(payload)
        /\ {"size", "timestamp"} \subseteq DOMAIN Records(payload)[payload["audio_files"][i]]

C32_WrittenPayloadComplete ==
    WrotePayload => RecordsComplete(Payload(World, last.path))

\* The same for the payloads that load_zip writes.
C32_ScanPayloadComplete ==
    WrotePayload /\ last.op = "load_zip" => RecordsComplete(Payload(World, last.path))


(***************************************************************************)
(* C33: for an entry longer than max_header_size, get_audio_duration reads *)
(* the first max_header_size bytes and probes them; when that probe gives  *)
(* a duration, the entry is read no further; when it gives none, because   *)
(* mutagen returns nothing or because it fails on the cut data, the whole  *)
(* entry is read and probed before None is returned.                       *)
(***************************************************************************)
\* The last call read the header of an entry longer than max_header_size.
HeaderOnly ==
    /\ last.op = "get_audio_duration"
    /\ last.exc = "none"
    /\ last.io.probes > 0
    /\ GetInfo(open_zips[last.path].content, last.arg.val.file_name).file_size
          > last.arg.val.max_header_size

\* The probe of the header gave a duration.
HeaderGaveDuration ==
    /\ last.arg.val.header = "length"
    /\ GetInfo(open_zips[last.path].content, last.arg.val.file_name).dur # None

C33_HeaderThenFullProbe ==
    HeaderOnly =>
        /\ HeaderGaveDuration => last.io.probes = 1 /\ last.ret # None
        /\ ~HeaderGaveDuration =>
              /\ last.io.probes = 2
              /\ last.ret = GetInfo(open_zips[last.path].content, last.arg.val.file_name).dur

\* The same without the case of a probe that fails on the cut data.
C33_HeaderNothingThenFullProbe ==
    HeaderOnly /\ last.arg.val.header # "raises" => C33_HeaderThenFullProbe


(***************************************************************************)
(* C34: a scan of load_zip goes in batches of at most BATCH_SIZE entries;  *)
(* after each batch a progress value in 0..100 is reported, no value is    *)
(* smaller than the one before, and the value after the last batch is 100; *)
(* an entry whose processing fails is skipped and the entries after it are *)
(* processed; and a scan that has begun comes to its end.                  *)
(***************************************************************************)
ScanInBatches ==
    Scanning =>
        LET f == frame.val IN
        /\ Len(f.progress) = Len(f.batches)
        /\ \A j \in 1..Len(f.batches) : f.batches[j] \in 1..BATCH_SIZE
        /\ \A j \in 1..Len(f.progress) : f.progress[j] \in 0..100
        /\ \A j, k \in 1..Len(f.progress) : j < k => f.progress[j] <= f.progress[k]
        /\ f.i >= Len(f.audio_files) /\ f.audio_files # <<>> =>
              /\ f.progress[Len(f.progress)] = 100
              /\ \A j \in 1..Len(f.audio_files) :
                    InNamelist(open_zips[f.zip_path].content, f.audio_files[j]) =>
                        f.audio_files[j] \in DOMAIN scan_metadata

C34_ScanInBatchesFinishes == []ScanInBatches /\ (Scanning ~> ~Scanning)

\* A scan of two batches is at its end, the probe of the first entry having
\* failed.
C34_Witness ==
    /\ Scanning
    /\ frame.val.i >= Len(frame.val.audio_files)
    /\ Len(frame.val.batches) = 2
    /\ frame.val.audio_files[1] \in DOMAIN scan_metadata
    /\ GetInfo(open_zips[frame.val.zip_path].content, frame.val.audio_files[1]).dur # None
    /\ "duration_ms" \notin DOMAIN scan_metadata[frame.val.audio_files[1]]


(***************************************************************************)
(* C35: load_zip returns used_cache = True only when get_cached_metadata   *)
(* returned a payload in that call.                                        *)
(***************************************************************************)
\* The last call was a load_zip that reported itself as served by the cache.
ReportedCached == last.op = "load_zip" /\ last.exc = "none" /\ last.ret = Some(TRUE)

C35_UsedCacheOnlyOnHit ==
    ReportedCached =>
        /\ get_cached_metadata(last.before, last.path).exc = "none"
        /\ get_cached_metadata(last.before, last.path).ret # None


(***************************************************************************)
(* C36: the payload that load_zip stores after a scan, and that            *)
(* get_cached_metadata then returns as valid, describes the content that   *)
(* the archive has under the stored fingerprint, also when the archive is  *)
(* replaced while load_zip scans it.                                       *)
(***************************************************************************)
\* The last call was a load_zip that scanned the archive and stored the
\* result.
ScannedAndStored == last.op = "load_zip" /\ last.exc = "none" /\ last.ret = Some(FALSE)

\* The payload lists the audio files of this content, with their sizes.
Describes(payload, content) ==
    /\ payload["audio_files"] = ScanAudioFiles(Namelist(content))
    /\ \A n \in DOMAIN Records(payload) :
          /\ InNamelist(content, n)
          /\ Records(payload)[n]["size"] = GetInfo(content, n).file_size

C36_StoredPayloadOfFingerprint ==
    ScannedAndStored /\ ValidEntry(World, last.path) =>
        Describes(Payload(World, last.path), arch[last.path].content)

\* The same for the scans during which the archive stayed as it was.
C36_StoredPayloadOfHandle ==
    ScannedAndStored /\ ValidEntry(World, last.path)
      /\ open_zips[last.path].content = arch[last.path].content =>
        Describes(Payload(World, last.path), arch[last.path].content)

(***************************************************************************)
(* C37: a duration or a full metadata that a handler stored for an entry   *)
(* of the archive while load_zip was scanning it is still in the record of *)
(* the entry when load_zip has returned.                                   *)
(***************************************************************************)
\* The record of n had key k before the scan stored its result, and has it
\* afterwards.
Kept(n, k) ==
    Populated(last.before, last.path, n, k) => Populated(World, last.path, n, k)

C37_MergeSurvivesScan ==
    ScannedAndStored =>
        \A n \in SessionNames : \A k \in {"duration_ms", "full_metadata"} : Kept(n, k)

\* The same for the durations alone, in the scans during which the archive
\* stayed as it was.
C37_DurationSurvivesScan ==
    ScannedAndStored /\ last.before.arch = arch
      /\ open_zips[last.path].content = arch[last.path].content =>
        \A n \in SessionNames : Kept(n, "duration_ms")

(***************************************************************************)
(* C38: every handle that the ZipManager opens is registered in open_zips  *)
(* or closed when the call that opened it returns, also when load_zip      *)
(* rejects the archive; after cleanup no handle of the session is open.    *)
(***************************************************************************)
C38_NoHandleLeftOpen ==
    /\ last.op \in {"load_zip", "read_file", "close_zip", "cleanup"} => unreferenced = {}
    /\ last.op = "cleanup" => open_zips = EmptyDict

\* The handles of the archives that load_zip accepts are registered, and
\* cleanup closes all the registered ones.
C38_AcceptedHandleRegistered ==
    /\ last.op = "load_zip" /\ last.exc = "none" /\ last.ret = Some(FALSE) =>
          last.path \in DOMAIN open_zips
    /\ last.op = "cleanup" => open_zips = EmptyDict
    /\ \A h \in unreferenced : ScanAudioFiles(Namelist(h.content)) = <<>>

(***************************************************************************)
(* C39: extracting two distinct entries of an archive into one directory   *)
(* gives two distinct files: extract_file does not overwrite a file that   *)
(* it wrote earlier for another entry, and extract_files returns pairwise  *)
(* distinct paths for pairwise distinct names.                             *)
(***************************************************************************)
PairwiseDistinct(s) == \A i, j \in DOMAIN s : i # j => s[i] # s[j]

\* The file that the last call wrote was written earlier in the session.
WroteOverExtracted ==
    /\ last.op = "extract_file"
    /\ last.exc = "none"
    /\ \E i \in DOMAIN last.before.extracted_files :
          last.before.extracted_files[i] = last.ret.val
    /\ last.ret.val \in DOMAIN last.before.outfiles

C39_DistinctEntriesDistinctFiles ==
    /\ WroteOverExtracted =>
          outfiles[last.ret.val] = last.before.outfiles[last.ret.val]
    /\ last.op = "extract_files" /\ last.exc = "none"
         /\ PairwiseDistinct(last.arg.val.file_names) =>
          PairwiseDistinct(last.ret.val)

\* The same for the entries whose names differ after the last slash.
C39_DistinctBasenamesDistinctFiles ==
    last.op = "extract_files" /\ last.exc = "none"
      /\ PairwiseDistinct([i \in DOMAIN last.arg.val.file_names |->
                              Basename(Chars[last.arg.val.file_names[i]])]) =>
        /\ PairwiseDistinct(last.ret.val)
        /\ \A i \in DOMAIN last.ret.val :
              outfiles[last.ret.val[i]] =
                  WholeFile(Data(open_zips[last.path].content, last.arg.val.file_names[i]))

====
